---- MODULE Spec2Model ----
(***************************************************************************)
(* A state-machine model of the GraphBLAS core: matrix finalisation        *)
(* (wait), reduction to scalar (GB_reduce_to_scalar), element-wise         *)
(* add/multiply (GB_eWise), the complemented-mask dot-product kernel       *)
(* (GB_AxB_dot2_compmask) and the Gustavson multiply kernels               *)
(* (GB_AgusB__max_rminus_uint8, GB_AgusB__min_rdiv_int8).                  *)
(*                                                                         *)
(* C arrays are 0-based; sequences here are 1-based, so C's a[k] is        *)
(* At(a, k) == a[k+1].                                                     *)
(***************************************************************************)
EXTENDS Integers, Sequences, FiniteSets, TLC

VARIABLES
    \* ---- matrix lifecycle (matrix_new / set_element / assign / wait)
    w_A,            \* the matrix being mutated and finalised
    w_last,         \* the last operation applied to w_A
    w_info,         \* the status that operation returned
    w_nops,         \* the number of operations applied so far
    \* ---- GB_reduce_to_scalar
    red_pc,         \* position in GB_reduce_to_scalar
    red_arg,        \* the call's scalar arguments: ctype, accum, reduce, Context
    red_A,          \* the matrix A
    red_c,          \* the scalar c (input and output)
    red_info,       \* the GrB_Info returned
    red_plan,       \* anz, nthreads, ntasks and the slice boundaries
    red_W,          \* the workspace W [0..ntasks-1]
    red_s,          \* the scalar s
    red_early_exit, \* the shared early_exit flag
    red_task,       \* per task: pc, p, t, my_exit
    red_worker,     \* which worker produced s
    \* ---- GB_eWise
    ew_pc,          \* position in GB_eWise
    ew_arg,         \* the call's descriptor and operators, and C on input
    ew_C,           \* the matrix C (input and output)
    ew_M,           \* the mask M, or NULL
    ew_A,           \* the matrix A
    ew_B,           \* the matrix B
    ew_A_transpose, \* the local A_transpose, flipped for A's orientation
    ew_B_transpose, \* the local B_transpose, flipped for B's orientation
    ew_MT,          \* the temporary MT, or NULL
    ew_T,           \* the matrix T, as handed to GB_accum_mask
    ew_info,        \* the GrB_Info returned
    ew_tmp,         \* the pointers MT, AT and BT; the temporaries made, freed
    \* ---- GB_AxB_dot2_compmask
    dot_phase,      \* phase 1 (count), phase 2 (write) or done
    dot_in,         \* A, B, M, their slices and nthreads
    dot_task,       \* per task (a_taskid, b_taskid): pc, Iter_k, i, cnz, cnz_last
    dot_C_counts,   \* C_counts [a_taskid][k]
    dot_Cp,         \* the vector pointers of C
    dot_Ci,         \* the indices of C written so far, by position
    dot_log,        \* the dot products attempted in this phase, the writes to Ci
    \* ---- the Gustavson kernels
    gus_in,         \* the semiring, A, B, M, accum and C on input
    gus_mask,       \* C<M> = A*B: next vector j, the Sauna, the vectors of T, C
    gus_nomask,     \* C = A*B: next vector j, Sauna_Work, the vectors of T, C
    gus_dot,        \* the dot product kernel: the next vector, the vectors computed
    gus_heap,       \* the heap kernel: the next vector, the vectors computed
    \* ---- the unary apply kernels
    ap_pc,          \* position in the kernel
    ap_in,          \* the kernel, anz, nthreads, the arrays on entry, aliasing
    ap_Ax,          \* the array Ax
    ap_Cx,          \* the array Cx (the same array as Ax when aliased)
    ap_thread,      \* per thread: pc, p, the end of its chunk, aij
    ap_trace,       \* per position: reads and writes so far; stale reads
    ap_info,        \* what the kernel returned
    \* ---- the triu selector
    sel_pc,         \* phase1, cumsum, phase2 or done
    sel_in,         \* A and ithunk
    sel_Zp,         \* Zp [k], where the kept part of vector k ends
    sel_Cp,         \* Cp: the counts of phase 1, then the vector pointers
    sel_Ci,         \* the indices of C written so far, by position
    sel_Cx,         \* the values of C written so far, by position
    sel_vecs        \* the vectors phase 1 has counted and phase 2 has written

waitVars == <<w_A, w_last, w_info, w_nops>>
redVars  == <<red_pc, red_arg, red_A, red_c, red_info, red_plan, red_W, red_s,
              red_early_exit, red_task, red_worker>>
ewVars   == <<ew_pc, ew_arg, ew_C, ew_M, ew_A, ew_B, ew_A_transpose,
              ew_B_transpose, ew_MT, ew_T, ew_info, ew_tmp>>
dotVars  == <<dot_phase, dot_in, dot_task, dot_C_counts, dot_Cp, dot_Ci, dot_log>>
gusVars  == <<gus_in, gus_mask, gus_nomask, gus_dot, gus_heap>>
apVars   == <<ap_pc, ap_in, ap_Ax, ap_Cx, ap_thread, ap_trace, ap_info>>
selVars  == <<sel_pc, sel_in, sel_Zp, sel_Cp, sel_Ci, sel_Cx, sel_vecs>>
vars == <<waitVars, redVars, ewVars, dotVars, gusVars, apVars, selVars>>

\* what the actions of one component leave alone
waitOthers == <<redVars, ewVars, dotVars, gusVars, apVars, selVars>>
redOthers == <<waitVars, ewVars, dotVars, gusVars, apVars, selVars>>
ewOthers == <<waitVars, redVars, dotVars, gusVars, apVars, selVars>>
dotOthers == <<waitVars, redVars, ewVars, gusVars, apVars, selVars>>
gusOthers == <<waitVars, redVars, ewVars, dotVars, apVars, selVars>>
apOthers == <<waitVars, redVars, ewVars, dotVars, gusVars, selVars>>
selOthers == <<waitVars, redVars, ewVars, dotVars, gusVars, apVars>>

\* an absent operator or matrix
NULL == [null |-> TRUE]

At(a, k) == a[k + 1]

GB_IMIN(x, y) == IF x < y THEN x ELSE y
GB_IMAX(x, y) == IF x > y THEN x ELSE y
GB_ICEIL(x, y) == (x + y - 1) \div y

(***************************************************************************)
(* Types, typecasting and operators                                        *)
(***************************************************************************)

\* the built-in types the model uses, and one user-defined type
GB_Types == {"BOOL", "INT8", "UINT8", "UDT"}

\* a value stored in a variable of the given type: C's integer conversion
\* (bool: nonzero is true; 8-bit: reduced modulo 2^8)
GB_cast_factory(ztype, xtype, x) ==
    CASE ztype = "BOOL"  -> IF x # 0 THEN 1 ELSE 0
      [] ztype = "UINT8" -> x % 256
      [] ztype = "INT8"  -> ((x + 128) % 256) - 128
      [] OTHER           -> x

\* built-in types are compatible with each other, a user-defined type only
\* with itself
GB_Type_compatible(atype, btype) ==
    (atype = btype) \/ (atype # "UDT" /\ btype # "UDT")

BinaryOp(opcode, xtype, ytype, ztype) ==
    [opcode |-> opcode, xtype |-> xtype, ytype |-> ytype, ztype |-> ztype]

Builtin(opcode, type) == BinaryOp(opcode, type, type, type)

\* z = op (x,y), computed in the operator's z type
GB_binop(op, x, y) ==
    GB_cast_factory(op.ztype, op.ztype,
        CASE op.opcode = "FIRST"  -> x
          [] op.opcode = "SECOND" -> y
          [] op.opcode = "MIN"    -> GB_IMIN(x, y)
          [] op.opcode = "MAX"    -> GB_IMAX(x, y)
          [] op.opcode = "PLUS"   -> x + y
          [] op.opcode = "MINUS"  -> x - y
          [] op.opcode = "RMINUS" -> y - x
          [] op.opcode = "TIMES"  -> x * y
          [] op.opcode = "LOR"    -> IF x # 0 \/ y # 0 THEN 1 ELSE 0
          [] OTHER                -> x)

\* terminal is the empty set when the monoid has none (terminal == NULL)
Monoid(op, identity, terminal) ==
    [op |-> op, identity |-> identity, terminal |-> terminal]

\* MAX over uint8: identity 0, terminal UINT8_MAX
GB_MAX_UINT8 == Monoid(Builtin("MAX", "UINT8"), 0, {255})
\* MIN over int8: identity INT8_MAX, terminal INT8_MIN
GB_MIN_INT8 == Monoid(Builtin("MIN", "INT8"), 127, {-128})
\* PLUS over uint8: identity 0, no terminal
GB_PLUS_UINT8 == Monoid(Builtin("PLUS", "UINT8"), 0, {})
\* LOR over bool: identity false, terminal true
GB_LOR_BOOL == Monoid(Builtin("LOR", "BOOL"), 0, {1})

(***************************************************************************)
(* The sparse matrix: vectors 0..vdim-1 of length vlen; the entries of     *)
(* vector k are positions p[k] .. p[k+1]-1 of i and x.  A zombie is an     *)
(* entry whose index is flipped to GB_FLIP (i) < 0.  Pending holds the     *)
(* tuples not yet merged into (p,i,x).                                     *)
(***************************************************************************)

GB_FLIP(i) == -i - 2
GB_IS_ZOMBIE(i) == i < 0

Matrix(type, vlen, vdim, is_csc, p, i, x) ==
    [type |-> type, vlen |-> vlen, vdim |-> vdim, is_csc |-> is_csc,
     p |-> p, i |-> i, x |-> x,
     nzombies |-> 0, Pending |-> << >>, Pending_op |-> NULL]

\* matrix_new: empty, stored by column
matrix_new(type, nrows, ncols) ==
    Matrix(type, nrows, ncols, TRUE, [k \in 1..(ncols + 1) |-> 0], << >>, << >>)

GB_NROWS(A) == IF A.is_csc THEN A.vlen ELSE A.vdim
GB_NCOLS(A) == IF A.is_csc THEN A.vdim ELSE A.vlen

\* the number of entries held in (i,x), zombies included
GB_NNZ(A) == At(A.p, A.vdim)

GB_PENDING_OR_ZOMBIES(A) == Len(A.Pending) > 0 \/ A.nzombies > 0

\* the entries of vector k as a sequence of <<index, value>>
GB_vector(A, k) ==
    [q \in 1..(At(A.p, k + 1) - At(A.p, k)) |->
        <<A.i[At(A.p, k) + q], A.x[At(A.p, k) + q]>>]

RECURSIVE GB_cumsum(_, _)
\* the total length of vectors 0..k-1
GB_cumsum(vecs, k) ==
    IF k = 0 THEN 0 ELSE GB_cumsum(vecs, k - 1) + Len(vecs[k - 1])

RECURSIVE GB_concat(_, _)
\* vectors 0..k-1 laid end to end
GB_concat(vecs, k) ==
    IF k = 0 THEN << >> ELSE GB_concat(vecs, k - 1) \o vecs[k - 1]

\* (p,i,x) rebuilt from the vectors vecs[0..vdim-1]
GB_build(A, vecs) ==
    LET all == GB_concat(vecs, A.vdim)
    IN  [A EXCEPT !.p = [k \in 1..(A.vdim + 1) |-> GB_cumsum(vecs, k - 1)],
                  !.i = [q \in 1..Len(all) |-> all[q][1]],
                  !.x = [q \in 1..Len(all) |-> all[q][2]]]

RECURSIVE GB_prune(_)
\* step 1 of wait: one vector with its zombies skipped
GB_prune(vec) ==
    IF vec = << >> THEN << >>
    ELSE IF GB_IS_ZOMBIE(Head(vec)[1]) THEN GB_prune(Tail(vec))
         ELSE <<Head(vec)>> \o GB_prune(Tail(vec))

\* tuple t sorts at or before tuple u, by (outer, inner)
GB_tuple_le(t, u) == t.j < u.j \/ (t.j = u.j /\ t.i <= u.i)

RECURSIVE GB_insert(_, _)
\* t placed after every tuple that sorts at or before it (a stable sort)
GB_insert(sorted, t) ==
    IF sorted = << >> THEN <<t>>
    ELSE IF GB_tuple_le(sorted[Len(sorted)], t) THEN Append(sorted, t)
         ELSE Append(GB_insert(SubSeq(sorted, 1, Len(sorted) - 1), t),
                     sorted[Len(sorted)])

RECURSIVE GB_sort(_)
GB_sort(tuples) ==
    IF tuples = << >> THEN << >>
    ELSE GB_insert(GB_sort(SubSeq(tuples, 1, Len(tuples) - 1)),
                   tuples[Len(tuples)])

\* two values for one position: the pending operator, or the later one
GB_dup(op, x, y) == IF op = NULL THEN y ELSE GB_binop(op, x, y)

\* duplicates left in place
GB_dedup_keep(op, sorted) == sorted

RECURSIVE GB_dedup(_, _)
\* duplicates of a sorted tuple list reduced, left to right
GB_dedup(op, sorted) ==
    IF Len(sorted) <= 1 THEN sorted
    ELSE IF sorted[1].i = sorted[2].i /\ sorted[1].j = sorted[2].j
         THEN GB_dedup(op, <<[sorted[2] EXCEPT !.x = GB_dup(op, sorted[1].x, sorted[2].x)]>>
                           \o SubSeq(sorted, 3, Len(sorted)))
         ELSE <<sorted[1]>> \o GB_dedup(op, Tail(sorted))

RECURSIVE GB_select_vec(_, _)
\* the tuples of outer index k, as <<index, value>>
GB_select_vec(tuples, k) ==
    IF tuples = << >> THEN << >>
    ELSE IF Head(tuples).j = k
         THEN <<<<Head(tuples).i, Head(tuples).x>>>> \o GB_select_vec(Tail(tuples), k)
         ELSE GB_select_vec(Tail(tuples), k)

RECURSIVE GB_merge(_, _, _)
\* two sorted vectors merged; on equal indices the existing entry (left) is
\* combined with the pending one (right)
GB_merge(op, a, t) ==
    IF a = << >> THEN t
    ELSE IF t = << >> THEN a
    ELSE IF Head(a)[1] < Head(t)[1] THEN <<Head(a)>> \o GB_merge(op, Tail(a), t)
    ELSE IF Head(t)[1] < Head(a)[1] THEN <<Head(t)>> \o GB_merge(op, a, Tail(t))
    ELSE <<<<Head(a)[1], GB_dup(op, Head(a)[2], Head(t)[2])>>>>
         \o GB_merge(op, Tail(a), Tail(t))

\* step 1: compact out the zombies
GB_wait_zombies(A) ==
    [GB_build(A, [k \in 0..(A.vdim - 1) |-> GB_prune(GB_vector(A, k))])
        EXCEPT !.nzombies = 0]

\* step 2: sort the pending tuples, reduce duplicates, merge
GB_wait_pending(A) ==
    LET T == GB_dedup(A.Pending_op, GB_sort(A.Pending))
    IN  [GB_build(A, [k \in 0..(A.vdim - 1) |->
                        GB_merge(A.Pending_op, GB_vector(A, k), GB_select_vec(T, k))])
            EXCEPT !.Pending = << >>]

\* wait (A): A with no zombies and no pending tuples
GB_wait(A) == GB_wait_pending(GB_wait_zombies(A))

\* GB_MATRIX_WAIT (A): finalise A only if it has pending work
GB_MATRIX_WAIT(A) == IF GB_PENDING_OR_ZOMBIES(A) THEN GB_wait(A) ELSE A

\* the position of entry (i, k) in vector k, or 0 if there is none
GB_find(A, i, k) ==
    LET hits == {q \in (At(A.p, k) + 1)..At(A.p, k + 1) : A.i[q] = i \/ A.i[q] = GB_FLIP(i)}
    IN  IF hits = {} THEN 0 ELSE CHOOSE q \in hits : TRUE

(***************************************************************************)
(* Matrix lifecycle: matrix_new, set_element, assign, wait                 *)
(***************************************************************************)

\* the number of mutations and waits applied to one matrix
MaxOps == 5

\* the values set_element writes
W_Values == {1, 2}

WaitIdle ==
    /\ w_A = NULL
    /\ w_last = "idle"
    /\ w_info = "GrB_SUCCESS"
    /\ w_nops = 0

\* matrix_new: a 2-by-2 matrix with no entries; the operator that reduces
\* duplicate pending tuples is either absent or PLUS
WaitInit ==
    /\ \E op \in {NULL, Builtin("PLUS", "UINT8")} :
          w_A = [matrix_new("UINT8", 2, 2) EXCEPT !.Pending_op = op]
    /\ w_last = "new"
    /\ w_info = "GrB_SUCCESS"
    /\ w_nops = 0

\* set_element (A, i, j, v): the tuple is added to the pending bag
set_element(A, i, j, v) ==
    [A EXCEPT !.Pending = Append(@, [i |-> i, j |-> j, x |-> v])]

\* assign deleting A(i,j): the entry at position q becomes a zombie
assign_delete(A, q) ==
    [A EXCEPT !.i[q] = GB_FLIP(@), !.nzombies = @ + 1]

SetElement ==
    /\ w_last # "idle" /\ w_nops < MaxOps
    /\ \E i \in 0..(w_A.vlen - 1), j \in 0..(w_A.vdim - 1), v \in W_Values :
          w_A' = set_element(w_A, i, j, v)
    /\ w_last' = "set_element"
    /\ w_info' = "GrB_SUCCESS"
    /\ w_nops' = w_nops + 1
    /\ UNCHANGED waitOthers

Assign ==
    /\ w_last # "idle" /\ w_nops < MaxOps
    /\ \E q \in 1..Len(w_A.i) :
          /\ ~GB_IS_ZOMBIE(w_A.i[q])
          /\ w_A' = assign_delete(w_A, q)
    /\ w_last' = "assign"
    /\ w_info' = "GrB_SUCCESS"
    /\ w_nops' = w_nops + 1
    /\ UNCHANGED waitOthers

\* wait (A) returning Success
Wait ==
    /\ w_last # "idle" /\ w_nops < MaxOps
    /\ w_A' = GB_wait(w_A)
    /\ w_last' = "wait"
    /\ w_info' = "GrB_SUCCESS"
    /\ w_nops' = w_nops + 1
    /\ UNCHANGED waitOthers

\* wait (A) running out of memory: reported, the matrix unchanged
WaitOutOfMemory ==
    /\ w_last # "idle" /\ w_nops < MaxOps
    /\ GB_PENDING_OR_ZOMBIES(w_A)
    /\ w_last' = "wait_failed"
    /\ w_info' = "GrB_OUT_OF_MEMORY"
    /\ w_nops' = w_nops + 1
    /\ UNCHANGED <<w_A, waitOthers>>

(***************************************************************************)
(* GB_reduce_to_scalar: c = accum (c, reduce_to_scalar (A))                *)
(***************************************************************************)

\* the largest number of entries of A
MaxNnz == 3
\* the largest nthreads_max of the Context
MaxThreads == 2
\* the largest chunk of the Context
MaxChunk == 2

\* tasks per thread when more than one thread is used
GB_TASKS_PER_THREAD == 64
\* the GPU block size and the entries each GPU thread reduces
GB_GPU_BLOCKSIZE == 512
GB_GPU_ENTRIES_PER_THREAD == 8

\* check domains for c = accum (c,s): s of type ttype into c of type ctype
GB_compatible(ctype, accum, ttype) ==
    /\ accum # NULL =>
          /\ GB_Type_compatible(ctype, accum.ztype)
          /\ GB_Type_compatible(ctype, accum.xtype)
          /\ GB_Type_compatible(ttype, accum.ytype)
    /\ GB_Type_compatible(ctype, ttype)

\* nthreads = min (nthreads_max, ceil (work / chunk)), at least 1
GB_nthreads(work, chunk, nthreads_max) ==
    GB_IMAX(GB_IMIN(GB_ICEIL(work, chunk), nthreads_max), 1)

\* the CPU's number of tasks, without the last GB_IMAX
GB_ntasks_cpu_unclamped(nthreads, anz) ==
    GB_IMIN(IF nthreads = 1 THEN 1 ELSE GB_TASKS_PER_THREAD * nthreads, anz)

\* the CPU's number of tasks
GB_ntasks_cpu(nthreads, anz) ==
    GB_IMAX(GB_IMIN(IF nthreads = 1 THEN 1 ELSE GB_TASKS_PER_THREAD * nthreads, anz), 1)

\* the GPU's number of tasks (grid.x)
GB_ntasks_gpu(anz) ==
    GB_ICEIL(anz, GB_GPU_ENTRIES_PER_THREAD * GB_GPU_BLOCKSIZE)

\* the contiguous partitions of entries 0..anz-1 into ntasks slices: task tid
\* owns entries slice[tid] .. slice[tid+1]-1
GB_PARTITION(anz, ntasks) ==
    {slice \in [1..(ntasks + 1) -> 0..anz] :
        /\ slice[1] = 0
        /\ slice[ntasks + 1] = anz
        /\ \A k \in 1..ntasks : slice[k] <= slice[k + 1]}

\* a task's scalar started one above the identity
GB_SCALAR_IDENTITY_one(reduce) == reduce.identity + 1

\* a task's scalar started at zero instead of the identity
GB_SCALAR_IDENTITY_zero(reduce) == 0

\* ztype t = identity
GB_SCALAR_IDENTITY(reduce) == reduce.identity

\* t += (ztype) Ax [p]: freduce (t, t, awork) with awork the typecast entry
GB_ADD_CAST_ARRAY_TO_SCALAR(reduce, atype, t, aij) ==
    GB_binop(reduce.op, t, GB_cast_factory(reduce.op.ztype, atype, aij))

\* s = W [k]: the running sum dropped
GB_ADD_ARRAY_TO_SCALAR_copy(reduce, s, w) == w

\* s += W [k]: freduce (s, s, W [k])
GB_ADD_ARRAY_TO_SCALAR(reduce, s, w) == GB_binop(reduce.op, s, w)

\* the terminal value never recognised
GB_IS_TERMINAL_never(reduce, s) == FALSE

\* the terminal test comparing against the identity instead
GB_IS_TERMINAL_identity(reduce, s) == reduce.terminal # {} /\ s # reduce.identity

\* terminal != NULL and memcmp (s, terminal, zsize) == 0
GB_IS_TERMINAL(reduce, s) == s \in reduce.terminal

RECURSIVE GB_sum_tasks(_, _, _, _)
\* the orchestrator's loop: s = s + W [0] + ... + W [ntasks-1], in order
GB_sum_tasks(reduce, s, W, ntasks) ==
    IF ntasks = 0 THEN s
    ELSE GB_ADD_ARRAY_TO_SCALAR(reduce,
            GB_sum_tasks(reduce, s, W, ntasks - 1), At(W, ntasks - 1))

\* c = (ctype) s
GB_cast_Z_to_C(ctype, reduce, s) ==
    GB_cast_factory(ctype, reduce.op.ztype, s)

\* the operands of accum exchanged: zaccum = accum (s, c)
GB_accum_scalar_swapped(ctype, accum, reduce, c, s) ==
    LET xaccum == GB_cast_factory(accum.xtype, reduce.op.ztype, s)
        yaccum == GB_cast_factory(accum.ytype, ctype, c)
        zaccum == GB_binop(accum, xaccum, yaccum)
    IN  GB_cast_factory(ctype, accum.ztype, zaccum)

\* c = (ctype) accum ((xtype) c, (ytype) s)
GB_accum_scalar(ctype, accum, reduce, c, s) ==
    LET xaccum == GB_cast_factory(accum.xtype, ctype, c)
        yaccum == GB_cast_factory(accum.ytype, reduce.op.ztype, s)
        zaccum == GB_binop(accum, xaccum, yaccum)
    IN  GB_cast_factory(ctype, accum.ztype, zaccum)

\* a slot of W that malloc returned and no task has written
GB_UNWRITTEN == "unwritten"

RedIdle ==
    /\ red_pc = "idle"
    /\ red_arg = NULL
    /\ red_A = NULL
    /\ red_c = 0
    /\ red_info = "none"
    /\ red_plan = NULL
    /\ red_W = NULL
    /\ red_s = 0
    /\ red_early_exit = FALSE
    /\ red_task = << >>
    /\ red_worker = "none"

\* the values the entries of A and the scalar c are drawn from, by type
Red_Values(type) ==
    CASE type = "UINT8" -> {1, 255}
      [] type = "INT8"  -> {-128, -1}
      [] type = "BOOL"  -> {0, 1}
      [] OTHER          -> {1}

\* a vector of vlen MaxNnz with entries 0..n-1 holding xs; its last entry may
\* be a zombie and pend is its list of pending tuples
Red_Matrix(type, xs, zombie, pend) ==
    LET n == Len(xs)
        A == Matrix(type, MaxNnz, 1, TRUE, <<0, n>>, [q \in 1..n |-> q - 1], xs)
    IN  [A EXCEPT !.i = IF zombie THEN [@ EXCEPT ![n] = GB_FLIP(@)] ELSE @,
                  !.nzombies = IF zombie THEN 1 ELSE 0,
                  !.Pending = pend]

Red_Matrices(type, maxn) ==
    {Red_Matrix(type, xs, zombie, pend) :
        xs \in UNION {[1..n -> Red_Values(type)] : n \in 0..maxn},
        zombie \in BOOLEAN,
        pend \in {<< >>} \cup {<<[i |-> 0, j |-> 0, x |-> v]>> : v \in Red_Values(type)}}

Red_Arg(ctype, accum, reduce, nthreads_max, chunk, ngpus, disabled) ==
    [ctype |-> ctype, accum |-> accum, reduce |-> reduce, c_in |-> 0, A_in |-> NULL,
     nthreads_max |-> nthreads_max, chunk |-> chunk,
     ngpus_to_use |-> ngpus, GB_DISABLE |-> disabled]

\* the state on entry to GB_reduce_to_scalar: the scalar c and the matrix A
\* of the call are remembered in c_in and A_in
Red_Enter(arg, c, A) ==
    /\ red_arg = [arg EXCEPT !.c_in = c, !.A_in = A]
    /\ red_A = A
    /\ red_c = c

\* many finalised matrices, no accumulator, compatible types
RedInit_data ==
    \E reduce \in {GB_MAX_UINT8, GB_MIN_INT8, GB_PLUS_UINT8},
       nthreads_max \in {1, MaxThreads},
       A \in UNION {Red_Matrices(type, MaxNnz) : type \in {"UINT8", "INT8"}} :
        /\ A.nzombies = 0 /\ A.Pending = << >>
        /\ Red_Enter(Red_Arg("UINT8", NULL, reduce, nthreads_max, 1, 0, FALSE), 7, A)

\* many matrices with a zombie, a pending tuple or both
RedInit_pending ==
    \E nthreads_max \in {1, MaxThreads},
       A \in UNION {Red_Matrices(type, MaxNnz) : type \in {"UINT8", "INT8"}} :
        /\ A.nzombies = 0 \/ Len(A.i) > 0
        /\ A.nzombies > 0 \/ A.Pending # << >>
        /\ A.Pending # << >> => A.Pending[1].x = 1 \/ A.nzombies = 0
        /\ Red_Enter(Red_Arg("UINT8", NULL, GB_PLUS_UINT8, nthreads_max, 1, 0, FALSE), 7, A)

\* few matrices, with every combination of accumulator, types, GPU use and
\* disabled workers
RedInit_types ==
    \E ctype \in GB_Types,
       accum \in {NULL, Builtin("MINUS", "UINT8"), Builtin("FIRST", "INT8"),
                  BinaryOp("SECOND", "BOOL", "UINT8", "UINT8")},
       reduce \in {GB_MAX_UINT8, GB_MIN_INT8, GB_PLUS_UINT8},
       chunk \in 1..MaxChunk, ngpus \in 0..1, disabled \in BOOLEAN,
       A \in UNION {Red_Matrices(type, 1) : type \in GB_Types} :
        /\ A.nzombies = 0 /\ A.Pending = << >>
        /\ \E c \in Red_Values(ctype) :
              Red_Enter(Red_Arg(ctype, accum, reduce, MaxThreads, chunk, ngpus, disabled),
                        c, A)

\* a matrix with a zombie and a pending tuple, its type or c's type not
\* compatible with the monoid or the accumulator
RedInit_mismatch ==
    \E ctype \in {"UINT8", "UDT"}, atype \in {"UINT8", "UDT"},
       accum \in {NULL, Builtin("MINUS", "UINT8"), Builtin("FIRST", "UDT")} :
        Red_Enter(Red_Arg(ctype, accum, GB_PLUS_UINT8, MaxThreads, 1, 0, FALSE), 7,
                  Red_Matrix(atype, <<1, 1>>, TRUE, <<[i |-> 0, j |-> 0, x |-> 1]>>))

\* nothing of the call has run yet
Red_Fresh ==
    /\ red_pc = "check"
    /\ red_info = "none"
    /\ red_plan = NULL
    /\ red_W = NULL
    /\ red_s = 0
    /\ red_early_exit = FALSE
    /\ red_task = << >>
    /\ red_worker = "none"

RedInit ==
    /\ RedInit_data \/ RedInit_pending \/ RedInit_types \/ RedInit_mismatch
    /\ Red_Fresh

red_ztype == red_arg.reduce.op.ztype

\* lines 50-62: an incompatible accum, c or A is reported
RedDomainMismatch ==
    /\ red_pc = "check"
    /\ \/ ~GB_compatible(red_arg.ctype, red_arg.accum, red_ztype)
       \/ ~GB_Type_compatible(red_A.type, red_ztype)
    /\ red_pc' = "done"
    /\ red_info' = "GrB_DOMAIN_MISMATCH"
    /\ UNCHANGED <<red_arg, red_A, red_c, red_plan, red_W, red_s,
                   red_early_exit, red_task, red_worker, redOthers>>

\* the domains taken as compatible whatever they are
RedCheck_unchecked ==
    /\ red_pc = "check"
    /\ red_pc' = "wait"
    /\ UNCHANGED <<red_arg, red_A, red_c, red_info, red_plan, red_W, red_s,
                   red_early_exit, red_task, red_worker, redOthers>>

\* lines 50-62: the domains are compatible
RedCheck ==
    /\ red_pc = "check"
    /\ GB_compatible(red_arg.ctype, red_arg.accum, red_ztype)
    /\ GB_Type_compatible(red_A.type, red_ztype)
    /\ red_pc' = "wait"
    /\ UNCHANGED <<red_arg, red_A, red_c, red_info, red_plan, red_W, red_s,
                   red_early_exit, red_task, red_worker, redOthers>>

\* line 68: GB_MATRIX_WAIT (A)
RedWait ==
    /\ red_pc = "wait"
    /\ red_A' = GB_MATRIX_WAIT(red_A)
    /\ red_pc' = "plan"
    /\ UNCHANGED <<red_arg, red_c, red_info, red_plan, red_W, red_s,
                   red_early_exit, red_task, red_worker, redOthers>>

\* line 68: GB_MATRIX_WAIT (A) fails and its status is returned
RedWaitFail ==
    /\ red_pc = "wait"
    /\ GB_PENDING_OR_ZOMBIES(red_A)
    /\ red_pc' = "done"
    /\ red_info' = "GrB_OUT_OF_MEMORY"
    /\ UNCHANGED <<red_arg, red_A, red_c, red_plan, red_W, red_s,
                   red_early_exit, red_task, red_worker, redOthers>>

\* lines 74-104: anz, nthreads and ntasks; the slices of the tasks
RedPlan ==
    /\ red_pc = "plan"
    /\ LET anz == GB_NNZ(red_A)
           nthreads == IF red_arg.ngpus_to_use > 0 THEN 1
                       ELSE GB_nthreads(anz, red_arg.chunk, red_arg.nthreads_max)
           ntasks == IF red_arg.ngpus_to_use > 0 THEN GB_ntasks_gpu(anz)
                     ELSE GB_ntasks_cpu(nthreads, anz)
       IN  \E slice \in GB_PARTITION(anz, ntasks) :
              red_plan' = [anz |-> anz, nthreads |-> nthreads,
                           ntasks |-> ntasks, slice |-> slice]
    /\ red_pc' = "alloc"
    /\ UNCHANGED <<red_arg, red_A, red_c, red_info, red_W, red_s,
                   red_early_exit, red_task, red_worker, redOthers>>

\* lines 110-123: W = malloc (ntasks * zsize) ; s = identity
RedAlloc ==
    /\ red_pc = "alloc"
    /\ red_W' = [tid \in 1..red_plan.ntasks |-> GB_UNWRITTEN]
    /\ red_s' = GB_SCALAR_IDENTITY(red_arg.reduce)
    /\ red_pc' = "reduce"
    /\ UNCHANGED <<red_arg, red_A, red_c, red_info, red_plan,
                   red_early_exit, red_task, red_worker, redOthers>>

\* lines 111-115: W == NULL, out of memory
RedAllocFail ==
    /\ red_pc = "alloc"
    /\ red_pc' = "done"
    /\ red_info' = "GrB_OUT_OF_MEMORY"
    /\ UNCHANGED <<red_arg, red_A, red_c, red_plan, red_W, red_s,
                   red_early_exit, red_task, red_worker, redOthers>>

\* lines 128-137: anz == 0, nothing to do
RedEmpty ==
    /\ red_pc = "reduce"
    /\ red_plan.anz = 0
    /\ red_pc' = "accum"
    /\ UNCHANGED <<red_arg, red_A, red_c, red_info, red_plan, red_W, red_s,
                   red_early_exit, red_task, red_worker, redOthers>>

Red_Task(pc, p, t) == [pc |-> pc, p |-> p, t |-> t]

\* the switch factory is launched whatever the types are
GB_red_called_always(atype, ztype) == TRUE

\* line 138: the switch factory is launched only if A->type == ztype
GB_red_called(atype, ztype) == atype = ztype

\* the status of the specialised worker GB_red_scalar: NoValue if it was
\* disabled when the library was generated
GB_red(disabled) == IF disabled THEN "GrB_NO_VALUE" ELSE "GrB_SUCCESS"

\* lines 138-278: the worker that computes s.  With A->type == ztype it is
\* the specialised worker unless done = (info != GrB_NO_VALUE) is false, and
\* then the generic worker with no typecast; otherwise the generic worker
\* with typecast
GB_reduce_worker(atype, ztype, info) ==
    IF atype = ztype
    THEN (IF info # "GrB_NO_VALUE" THEN "GB_red" ELSE "generic")
    ELSE "generic_typecast"

\* the status of the last worker returned to the caller
GB_reduce_return_info(info) == info

\* line 326: return (GrB_SUCCESS)
GB_reduce_return(info) == "GrB_SUCCESS"

\* lines 138-278: the worker is chosen and its parallel loop starts
RedWorker ==
    /\ red_pc = "reduce"
    /\ red_plan.anz # 0
    /\ red_info' = IF GB_red_called(red_A.type, red_ztype)
                   THEN GB_red(red_arg.GB_DISABLE) ELSE red_info
    /\ red_worker' = GB_reduce_worker(red_A.type, red_ztype, red_info')
    /\ red_early_exit' = FALSE
    /\ red_task' = [tid \in 1..red_plan.ntasks |-> Red_Task("start", 0, 0)]
    /\ red_pc' = "tasks"
    /\ UNCHANGED <<red_arg, red_A, red_c, red_plan, red_W, red_s, redOthers>>

\* a task begins: t = identity, and GB_IF_NOT_EARLY_EXIT reads the flag
RedTaskStart(tid) ==
    /\ red_pc = "tasks"
    /\ red_task[tid + 1].pc = "start"
    /\ red_task' = [red_task EXCEPT ![tid + 1] =
          Red_Task(IF red_early_exit \/ At(red_plan.slice, tid) = At(red_plan.slice, tid + 1)
                   THEN "copy" ELSE "loop",
                   At(red_plan.slice, tid),
                   GB_SCALAR_IDENTITY(red_arg.reduce))]
    /\ UNCHANGED <<red_pc, red_arg, red_A, red_c, red_info, red_plan, red_W, red_s,
                   red_early_exit, red_worker, redOthers>>

\* one iteration of a task's loop: t += (ztype) Ax [p], then
\* GB_PARALLEL_BREAK_IF_TERMINAL (t)
RedTaskStep(tid) ==
    /\ red_pc = "tasks"
    /\ red_task[tid + 1].pc = "loop"
    /\ LET me == red_task[tid + 1]
           t == GB_ADD_CAST_ARRAY_TO_SCALAR(red_arg.reduce, red_A.type, me.t, At(red_A.x, me.p))
       IN  IF GB_IS_TERMINAL(red_arg.reduce, t)
           THEN /\ red_early_exit' = TRUE
                /\ red_task' = [red_task EXCEPT ![tid + 1] = Red_Task("copy", me.p, t)]
           ELSE /\ UNCHANGED red_early_exit
                /\ red_task' = [red_task EXCEPT ![tid + 1] =
                      Red_Task(IF me.p + 1 < At(red_plan.slice, tid + 1) THEN "loop" ELSE "copy",
                               me.p + 1, t)]
    /\ UNCHANGED <<red_pc, red_arg, red_A, red_c, red_info, red_plan, red_W, red_s,
                   red_worker, redOthers>>

\* GB_COPY_SCALAR_TO_ARRAY (W, tid, t)
RedTaskCopy(tid) ==
    /\ red_pc = "tasks"
    /\ red_task[tid + 1].pc = "copy"
    /\ red_W' = [red_W EXCEPT ![tid + 1] = red_task[tid + 1].t]
    /\ red_task' = [red_task EXCEPT ![tid + 1].pc = "done"]
    /\ UNCHANGED <<red_pc, red_arg, red_A, red_c, red_info, red_plan, red_s,
                   red_early_exit, red_worker, redOthers>>

RedStart == \E tid \in 0..(Len(red_task) - 1) : RedTaskStart(tid)
RedStep == \E tid \in 0..(Len(red_task) - 1) : RedTaskStep(tid)
RedCopy == \E tid \in 0..(Len(red_task) - 1) : RedTaskCopy(tid)

\* after the parallel loop: s = s + W [0] + ... + W [ntasks-1]
RedSum ==
    /\ red_pc = "tasks"
    /\ \A tid \in 1..Len(red_task) : red_task[tid].pc = "done"
    /\ red_s' = GB_sum_tasks(red_arg.reduce, red_s, red_W, red_plan.ntasks)
    /\ red_pc' = "accum"
    /\ UNCHANGED <<red_arg, red_A, red_c, red_info, red_plan, red_W,
                   red_early_exit, red_task, red_worker, redOthers>>

\* lines 287-326: c = s or c = accum (c,s); free W; return Success
RedAccum ==
    /\ red_pc = "accum"
    /\ red_c' = IF red_arg.accum = NULL
                THEN GB_cast_Z_to_C(red_arg.ctype, red_arg.reduce, red_s)
                ELSE GB_accum_scalar(red_arg.ctype, red_arg.accum, red_arg.reduce, red_c, red_s)
    /\ red_W' = NULL
    /\ red_info' = GB_reduce_return(red_info)
    /\ red_pc' = "done"
    /\ UNCHANGED <<red_arg, red_A, red_plan, red_s,
                   red_early_exit, red_task, red_worker, redOthers>>

(***************************************************************************)
(* GB_eWise: C<M> = accum (C, A+B) or A.*B                                 *)
(***************************************************************************)

\* the dimension of the matrices
Ew_N == 2

RECURSIVE GB_ascending(_)
\* the members of a set of integers, in increasing order
GB_ascending(S) ==
    IF S = {} THEN << >>
    ELSE LET m == CHOOSE m \in S : \A n \in S : m <= n
         IN  <<m>> \o GB_ascending(S \ {m})

\* entry (r,c) of a matrix is entry GB_inner of its vector GB_outer
GB_inner(X, r, c) == IF X.is_csc THEN r ELSE c
GB_outer(X, r, c) == IF X.is_csc THEN c ELSE r

GB_has(X, r, c) == GB_find(X, GB_inner(X, r, c), GB_outer(X, r, c)) # 0
GB_value(X, r, c) == X.x[GB_find(X, GB_inner(X, r, c), GB_outer(X, r, c))]

\* the entries of a matrix, by (row, column)
GB_entries(X) ==
    [pos \in {pos \in (0..(GB_NROWS(X) - 1)) \X (0..(GB_NCOLS(X) - 1)) :
                GB_has(X, pos[1], pos[2])} |-> GB_value(X, pos[1], pos[2])]

\* a matrix with no entries, its storage laid out as given
GB_new(type, vlen, vdim, is_csc) ==
    Matrix(type, vlen, vdim, is_csc, [k \in 1..(vdim + 1) |-> 0], << >>, << >>)

\* GB_clear (C): all entries, zombies and pending tuples removed
GB_clear(C) ==
    [GB_new(C.type, C.vlen, C.vdim, C.is_csc) EXCEPT !.Pending_op = C.Pending_op]

\* GB_transpose (&C, ctype, C_is_csc, A): the storage of A transposed, so
\* that vector k of the result holds the entries of A with inner index k,
\* each typecast to ctype; the result is labelled C_is_csc
GB_transpose(ctype, C_is_csc, A) ==
    LET idx(k) == GB_ascending({j \in 0..(A.vdim - 1) : GB_find(A, k, j) # 0})
        vec(k) == [q \in 1..Len(idx(k)) |->
                     <<idx(k)[q],
                       GB_cast_factory(ctype, A.type, A.x[GB_find(A, k, idx(k)[q])])>>]
    IN  GB_build(GB_new(ctype, A.vdim, A.vlen, C_is_csc),
                 [k \in 0..(A.vlen - 1) |-> vec(k)])

\* z = op (a,b) with a, b and z typecast: op.xtype <- atype, op.ytype <- btype,
\* ctype <- op.ztype
GB_cast_binop(ctype, atype, btype, op, a, b) ==
    GB_cast_factory(ctype, op.ztype,
        GB_binop(op, GB_cast_factory(op.xtype, atype, a),
                     GB_cast_factory(op.ytype, btype, b)))

RECURSIVE GB_add_vector(_, _, _, _, _, _)
\* set union of two vectors with two cursors: emit the smaller; on a tie
\* emit op (a,b)
GB_add_vector(ctype, atype, btype, op, a, b) ==
    IF a = << >> /\ b = << >> THEN << >>
    ELSE IF b = << >> \/ (a # << >> /\ Head(a)[1] < Head(b)[1])
    THEN <<<<Head(a)[1], GB_cast_factory(ctype, atype, Head(a)[2])>>>>
         \o GB_add_vector(ctype, atype, btype, op, Tail(a), b)
    ELSE IF a = << >> \/ Head(b)[1] < Head(a)[1]
    THEN <<<<Head(b)[1], GB_cast_factory(ctype, btype, Head(b)[2])>>>>
         \o GB_add_vector(ctype, atype, btype, op, a, Tail(b))
    ELSE <<<<Head(a)[1],
             GB_cast_binop(ctype, atype, btype, op, Head(a)[2], Head(b)[2])>>>>
         \o GB_add_vector(ctype, atype, btype, op, Tail(a), Tail(b))

RECURSIVE GB_emult_vector(_, _, _, _, _, _)
\* set intersection of two vectors with two cursors: advance the smaller; on
\* a tie emit op (a,b)
GB_emult_vector(ctype, atype, btype, op, a, b) ==
    IF a = << >> \/ b = << >> THEN << >>
    ELSE IF Head(a)[1] < Head(b)[1]
    THEN GB_emult_vector(ctype, atype, btype, op, Tail(a), b)
    ELSE IF Head(b)[1] < Head(a)[1]
    THEN GB_emult_vector(ctype, atype, btype, op, a, Tail(b))
    ELSE <<<<Head(a)[1],
             GB_cast_binop(ctype, atype, btype, op, Head(a)[2], Head(b)[2])>>>>
         \o GB_emult_vector(ctype, atype, btype, op, Tail(a), Tail(b))

\* the mask admits entry i of vector k: M(i,k) is present and casts to true;
\* the complement inverts the decision; no mask admits every entry
GB_mij(M, Mask_comp, i, k) ==
    IF M = NULL THEN ~Mask_comp
    ELSE LET q == GB_find(M, i, k)
         IN  (q # 0 /\ GB_cast_factory("BOOL", M.type, M.x[q]) = 1) # Mask_comp

\* GB_add (&T, ctype, C_is_csc, M, Mask_comp, A, B, op): T<M> = A+B, vector
\* by vector of the storage of A, B and M
GB_add(ctype, C_is_csc, M, Mask_comp, A, B, op) ==
    LET admitted(k) == {i \in 0..(A.vlen - 1) : GB_mij(M, Mask_comp, i, k)}
        union(k) == GB_add_vector(ctype, A.type, B.type, op,
                                  GB_vector(A, k), GB_vector(B, k))
        vec(k) == LET keep(e) == e[1] \in admitted(k)
                  IN  SelectSeq(union(k), keep)
    IN  GB_build(GB_new(ctype, A.vlen, A.vdim, C_is_csc),
                 [k \in 0..(A.vdim - 1) |-> vec(k)])

\* GB_emult (&T, ctype, C_is_csc, A, B, op): T = A.*B, vector by vector of
\* the storage of A and B
GB_emult(ctype, C_is_csc, A, B, op) ==
    GB_build(GB_new(ctype, A.vlen, A.vdim, C_is_csc),
             [k \in 0..(A.vdim - 1) |->
                GB_emult_vector(ctype, A.type, B.type, op,
                                GB_vector(A, k), GB_vector(B, k))])

\* the accumulator applied with its operands exchanged
GB_accum_entry_swapped(ctype, accum, ttype, c, t) ==
    GB_cast_binop(ctype, ttype, ctype, accum, t, c)

\* z = accum (C(i,j), T(i,j)): C.type <- accum.ztype <- accum (accum.xtype
\* <- C.type, accum.ytype <- T.type)
GB_accum_entry(ctype, accum, ttype, c, t) ==
    GB_cast_binop(ctype, ctype, ttype, accum, c, t)

\* Z = accum (C,T) has an entry where C or T has one; Z = T without accum
GB_Z_has(accum, c_has, t_has) ==
    IF accum = NULL THEN t_has ELSE c_has \/ t_has

GB_Z_value(ctype, accum, ttype, c_has, t_has, c, t) ==
    IF t_has /\ c_has /\ accum # NULL THEN GB_accum_entry(ctype, accum, ttype, c, t)
    ELSE IF t_has THEN GB_cast_factory(ctype, ttype, t)
    ELSE c

\* GB_accum_mask (C, M, MT, accum, &T, C_replace, Mask_comp): C<M> = accum
\* (C,T).  C is finalised first.  T is transposed if its orientation is not
\* C's; the mask is M if its orientation is C's and otherwise MT (computed
\* here if not supplied).  An admitted position takes Z = accum (C,T); a
\* rejected position keeps C's entry, or loses it if C_replace is set.
GB_accum_mask(C, M, MT, accum, T, C_replace, Mask_comp) ==
    LET Cw == GB_MATRIX_WAIT(C)
        Tc == IF T.is_csc = Cw.is_csc THEN T ELSE GB_transpose(T.type, Cw.is_csc, T)
        Mc == IF M = NULL THEN NULL
              ELSE IF M.is_csc = Cw.is_csc THEN M
              ELSE IF MT # NULL THEN MT
              ELSE GB_transpose("BOOL", Cw.is_csc, M)
        c_has(i, k) == GB_find(Cw, i, k) # 0
        t_has(i, k) == GB_find(Tc, i, k) # 0
        has(i, k) == IF GB_mij(Mc, Mask_comp, i, k)
                     THEN GB_Z_has(accum, c_has(i, k), t_has(i, k))
                     ELSE c_has(i, k) /\ ~C_replace
        val(i, k) == IF GB_mij(Mc, Mask_comp, i, k)
                     THEN GB_Z_value(Cw.type, accum, Tc.type, c_has(i, k), t_has(i, k),
                                     IF c_has(i, k) THEN Cw.x[GB_find(Cw, i, k)] ELSE 0,
                                     IF t_has(i, k) THEN Tc.x[GB_find(Tc, i, k)] ELSE 0)
                     ELSE Cw.x[GB_find(Cw, i, k)]
        idx(k) == GB_ascending({i \in 0..(Cw.vlen - 1) : has(i, k)})
    IN  GB_build(Cw, [k \in 0..(Cw.vdim - 1) |->
                        [q \in 1..Len(idx(k)) |-> <<idx(k)[q], val(idx(k)[q], k)>>]])

\* GB_BinaryOp_compatible (op, NULL, atype, btype): the inputs can be
\* typecast to the operator's x and y types
GB_BinaryOp_compatible(op, atype, btype) ==
    /\ GB_Type_compatible(op.xtype, atype)
    /\ GB_Type_compatible(op.ytype, btype)

\* lines 124-137: the sense of a transpose flag is flipped when the input's
\* orientation is not C's
GB_eWise_flip_none(C_is_csc, X_is_csc, X_transpose) == X_transpose

\* the sense of a transpose flag flipped whatever the orientations are
GB_eWise_flip_always(C_is_csc, X_is_csc, X_transpose) == ~X_transpose

GB_eWise_flip(C_is_csc, X_is_csc, X_transpose) ==
    IF C_is_csc # X_is_csc THEN ~X_transpose ELSE X_transpose

\* the mask is transposed only for its orientation
GB_eWise_MT_needed_orientation(C_is_csc, M, A_transpose, B_transpose) ==
    M # NULL /\ C_is_csc # M.is_csc

\* line 146: the mask is transposed
GB_eWise_MT_needed(C_is_csc, M, A_transpose, B_transpose) ==
    M # NULL /\ ((C_is_csc # M.is_csc) \/ (A_transpose /\ B_transpose))

\* the mask always taken as M
GB_eWise_mask_TT_M(C_is_csc, M_is_csc, M, MT) == M

\* lines 169-171: the mask handed to GB_add for T = A'+B'
GB_eWise_mask_TT(C_is_csc, M_is_csc, M, MT) ==
    IF M_is_csc = C_is_csc THEN MT ELSE M

\* lines 196-197, 226-227, 246-247: the mask handed to GB_add otherwise
GB_eWise_mask(C_is_csc, M_is_csc, M, MT) ==
    IF M_is_csc = C_is_csc THEN M ELSE MT

\* the dimensions checked with the transpose flags already conformed to the
\* orientation of C
GB_eWise_check_flipped(arg, C, M, A, B) ==
    LET A_transpose == GB_eWise_flip(C.is_csc, A.is_csc, arg.A_transpose)
        B_transpose == GB_eWise_flip(C.is_csc, B.is_csc, arg.B_transpose)
        anrows == IF A_transpose THEN GB_NCOLS(A) ELSE GB_NROWS(A)
        ancols == IF A_transpose THEN GB_NROWS(A) ELSE GB_NCOLS(A)
        bnrows == IF B_transpose THEN GB_NCOLS(B) ELSE GB_NROWS(B)
        bncols == IF B_transpose THEN GB_NROWS(B) ELSE GB_NCOLS(B)
        cnrows == GB_NROWS(C)
        cncols == GB_NCOLS(C)
    IN  IF ~GB_compatible(C.type, arg.accum, arg.op.ztype)
        THEN "GrB_DOMAIN_MISMATCH"
        ELSE IF M # NULL /\ (GB_NROWS(M) # cnrows \/ GB_NCOLS(M) # cncols)
        THEN "GrB_DIMENSION_MISMATCH"
        ELSE IF ~GB_BinaryOp_compatible(arg.op, A.type, B.type)
        THEN "GrB_DOMAIN_MISMATCH"
        ELSE IF arg.eWiseAdd /\ ~GB_Type_compatible(C.type, A.type)
        THEN "GrB_DOMAIN_MISMATCH"
        ELSE IF arg.eWiseAdd /\ ~GB_Type_compatible(C.type, B.type)
        THEN "GrB_DOMAIN_MISMATCH"
        ELSE IF anrows # bnrows \/ ancols # bncols
                \/ cnrows # anrows \/ cncols # bncols
        THEN "GrB_DIMENSION_MISMATCH"
        ELSE "GrB_SUCCESS"

\* lines 60-107: the status of the type and dimension checks
GB_eWise_check(arg, C, M, A, B) ==
    LET anrows == IF arg.A_transpose THEN GB_NCOLS(A) ELSE GB_NROWS(A)
        ancols == IF arg.A_transpose THEN GB_NROWS(A) ELSE GB_NCOLS(A)
        bnrows == IF arg.B_transpose THEN GB_NCOLS(B) ELSE GB_NROWS(B)
        bncols == IF arg.B_transpose THEN GB_NROWS(B) ELSE GB_NCOLS(B)
        cnrows == GB_NROWS(C)
        cncols == GB_NCOLS(C)
    IN  IF ~GB_compatible(C.type, arg.accum, arg.op.ztype)
        THEN "GrB_DOMAIN_MISMATCH"
        ELSE IF M # NULL /\ (GB_NROWS(M) # cnrows \/ GB_NCOLS(M) # cncols)
        THEN "GrB_DIMENSION_MISMATCH"
        ELSE IF ~GB_BinaryOp_compatible(arg.op, A.type, B.type)
        THEN "GrB_DOMAIN_MISMATCH"
        ELSE IF arg.eWiseAdd /\ ~GB_Type_compatible(C.type, A.type)
        THEN "GrB_DOMAIN_MISMATCH"
        ELSE IF arg.eWiseAdd /\ ~GB_Type_compatible(C.type, B.type)
        THEN "GrB_DOMAIN_MISMATCH"
        ELSE IF anrows # bnrows \/ ancols # bncols
                \/ cnrows # anrows \/ cncols # bncols
        THEN "GrB_DIMENSION_MISMATCH"
        ELSE "GrB_SUCCESS"

\* T always made in the orientation of C
GB_eWise_T_is_csc_C(C_is_csc, A_transpose, B_transpose) == C_is_csc

\* lines 169, 175: T = A'+B' is made in the orientation !C_is_csc; lines 196,
\* 202, 226, 232, 246, 252: otherwise in the orientation C_is_csc
GB_eWise_T_is_csc(C_is_csc, A_transpose, B_transpose) ==
    IF A_transpose /\ B_transpose THEN ~C_is_csc ELSE C_is_csc

\* lines 155-255: T = A+B, A'+B, A+B' or A'+B' (or .* in place of +)
GB_eWise_T(arg, C_is_csc, M, MT, A, B, A_transpose, B_transpose) ==
    LET T_type == arg.op.ztype
        T_is_csc == GB_eWise_T_is_csc(C_is_csc, A_transpose, B_transpose)
        M_is_csc == IF M = NULL THEN C_is_csc ELSE M.is_csc
        AT == GB_transpose(A.type, C_is_csc, A)
        BT == GB_transpose(B.type, C_is_csc, B)
    IN  IF A_transpose /\ B_transpose
        THEN IF arg.eWiseAdd
             THEN GB_add(T_type, T_is_csc,
                         GB_eWise_mask_TT(C_is_csc, M_is_csc, M, MT),
                         arg.Mask_comp, A, B, arg.op)
             ELSE GB_emult(T_type, T_is_csc, A, B, arg.op)
        ELSE IF A_transpose
        THEN IF arg.eWiseAdd
             THEN GB_add(T_type, T_is_csc,
                         GB_eWise_mask(C_is_csc, M_is_csc, M, MT),
                         arg.Mask_comp, AT, B, arg.op)
             ELSE GB_emult(T_type, T_is_csc, AT, B, arg.op)
        ELSE IF B_transpose
        THEN IF arg.eWiseAdd
             THEN GB_add(T_type, T_is_csc,
                         GB_eWise_mask(C_is_csc, M_is_csc, M, MT),
                         arg.Mask_comp, A, BT, arg.op)
             ELSE GB_emult(T_type, T_is_csc, A, BT, arg.op)
        ELSE IF arg.eWiseAdd
             THEN GB_add(T_type, T_is_csc,
                         GB_eWise_mask(C_is_csc, M_is_csc, M, MT),
                         arg.Mask_comp, A, B, arg.op)
             ELSE GB_emult(T_type, T_is_csc, A, B, arg.op)

\* lines 112-262: the C that GB_eWise returns once its checks have passed
\* and the mask is not the quick one: M, A and B finalised, the transpose
\* flags conformed to C, the mask transposed if needed, T computed and
\* C<M> = accum (C,T)
GB_eWise_result(arg, C, M, A, B) ==
    LET Mw == IF M = NULL THEN NULL ELSE GB_MATRIX_WAIT(M)
        Aw == GB_MATRIX_WAIT(A)
        Bw == GB_MATRIX_WAIT(B)
        A_transpose == GB_eWise_flip(C.is_csc, Aw.is_csc, arg.A_transpose)
        B_transpose == GB_eWise_flip(C.is_csc, Bw.is_csc, arg.B_transpose)
        MTs == {IF GB_eWise_MT_needed(C.is_csc, Mw, A_transpose, B_transpose)
                THEN GB_transpose("BOOL", C.is_csc, Mw)
                ELSE NULL}
        Ts(MT) == {GB_eWise_T(arg, C.is_csc, Mw, MT, Aw, Bw, A_transpose, B_transpose)}
        Rs == UNION {{GB_accum_mask(C, Mw, MT, arg.accum, T, arg.C_replace,
                                    arg.Mask_comp) : T \in Ts(MT)} : MT \in MTs}
    IN  CHOOSE R \in Rs : TRUE

\* the pointers of GB_eWise to temporaries: MT, AT and BT of line 48, and
\* the AT of line 189 that hides the AT of line 48 within lines 180-206
Ew_pointers == {"MT", "AT", "AT_189", "BT"}

\* the temporary matrix a pointer is for
Ew_temporary(ptr) == IF ptr = "AT_189" THEN "AT" ELSE ptr

\* line 48: every pointer is NULL; nothing has been made or freed (T, which
\* GB_add or GB_emult makes and GB_accum_mask frees, is counted too)
Ew_tmp_none ==
    [ptr |-> [q \in Ew_pointers |-> FALSE],
     made |-> [t \in {"MT", "AT", "BT", "T"} |-> 0],
     freed |-> [t \in {"MT", "AT", "BT", "T"} |-> 0]]

\* a matrix is made and its address stored in *ptr
GB_MATRIX_NEW(tmp, ptr) ==
    [tmp EXCEPT !.ptr[ptr] = TRUE, !.made[Ew_temporary(ptr)] = @ + 1]

\* GB_MATRIX_FREE (&ptr): the matrix, if any, is freed and ptr set to NULL
GB_MATRIX_FREE(tmp, ptr) ==
    IF tmp.ptr[ptr]
    THEN [tmp EXCEPT !.ptr[ptr] = FALSE, !.freed[Ew_temporary(ptr)] = @ + 1]
    ELSE tmp

\* GB_FREE_ALL with the name AT always the AT of line 48
GB_FREE_ALL_48(tmp, in_block) ==
    GB_MATRIX_FREE(GB_MATRIX_FREE(GB_MATRIX_FREE(tmp, "AT"), "BT"), "MT")

\* lines 18-23: GB_FREE_ALL frees AT, BT and MT; expanded within the block
\* of lines 180-206 the name AT is the AT of line 189
GB_FREE_ALL(tmp, in_block) ==
    GB_MATRIX_FREE(GB_MATRIX_FREE(GB_MATRIX_FREE(tmp,
        IF in_block THEN "AT_189" ELSE "AT"), "BT"), "MT")

EwIdle ==
    /\ ew_pc = "idle"
    /\ ew_arg = NULL
    /\ ew_C = NULL /\ ew_M = NULL /\ ew_A = NULL /\ ew_B = NULL
    /\ ew_A_transpose = FALSE /\ ew_B_transpose = FALSE
    /\ ew_MT = NULL /\ ew_T = NULL
    /\ ew_info = "none"
    /\ ew_tmp = NULL

\* the descriptor (C_replace, Mask_comp, A_transpose, B_transpose), the
\* operators and the choice of eWiseAdd or eWiseMult
Ew_Arg(C_replace, Mask_comp, accum, op, A_transpose, B_transpose, eWiseAdd) ==
    [C_replace |-> C_replace, Mask_comp |-> Mask_comp, accum |-> accum, op |-> op,
     A_transpose |-> A_transpose, B_transpose |-> B_transpose,
     eWiseAdd |-> eWiseAdd, C_in |-> NULL, M_in |-> NULL, A_in |-> NULL,
     B_in |-> NULL]

\* a finalised nrows-by-ncols matrix with the entries E, a function of
\* (row, column)
Ew_Matrix(type, nrows, ncols, is_csc, E) ==
    LET vlen == IF is_csc THEN nrows ELSE ncols
        vdim == IF is_csc THEN ncols ELSE nrows
        pos(i, k) == IF is_csc THEN <<i, k>> ELSE <<k, i>>
        idx(k) == GB_ascending({i \in 0..(vlen - 1) : pos(i, k) \in DOMAIN E})
    IN  GB_build(GB_new(type, vlen, vdim, is_csc),
                 [k \in 0..(vdim - 1) |->
                    [q \in 1..Len(idx(k)) |-> <<idx(k)[q], E[pos(idx(k)[q], k)]>>]])

\* the patterns of the sample matrices
Ew_Patterns ==
    {{}, {<<0, 0>>}, {<<1, 0>>}, {<<0, 1>>, <<1, 0>>}, {<<0, 0>>, <<1, 1>>},
     {<<0, 1>>, <<1, 1>>}, {<<0, 0>>, <<0, 1>>, <<1, 0>>},
     {<<0, 0>>, <<0, 1>>, <<1, 0>>, <<1, 1>>}}

\* sample matrices: an entry's value tells its position and its matrix
Ew_A(P, is_csc) ==
    Ew_Matrix("UINT8", Ew_N, Ew_N, is_csc, [pos \in P |-> 1 + 2 * pos[1] + pos[2]])
Ew_B(P, is_csc) ==
    Ew_Matrix("UINT8", Ew_N, Ew_N, is_csc, [pos \in P |-> 10 * (1 + 2 * pos[1] + pos[2])])
Ew_C(P, is_csc) ==
    Ew_Matrix("UINT8", Ew_N, Ew_N, is_csc, [pos \in P |-> 100 + 2 * pos[1] + pos[2]])

\* a mask with M(0,0) present and false, M(0,1) and M(1,1) present and true
Ew_Mask(is_csc) ==
    Ew_Matrix("UINT8", Ew_N, Ew_N, is_csc,
              (<<0, 0>> :> 0) @@ (<<0, 1>> :> 1) @@ (<<1, 1>> :> 2))

\* A of type int8 with a negative entry
Ew_A_int8(is_csc) ==
    Ew_Matrix("INT8", Ew_N, Ew_N, is_csc,
              (<<0, 1>> :> -2) @@ (<<1, 0>> :> 3) @@ (<<1, 1>> :> 4))

\* the state on entry to GB_eWise: the matrices of the call are remembered
\* in C_in, M_in, A_in and B_in
Ew_Start(arg, C, M, A, B) ==
    /\ ew_pc = "start"
    /\ ew_arg = [arg EXCEPT !.C_in = C, !.M_in = M, !.A_in = A, !.B_in = B]
    /\ ew_C = C /\ ew_M = M /\ ew_A = A /\ ew_B = B
    /\ ew_A_transpose = arg.A_transpose /\ ew_B_transpose = arg.B_transpose
    /\ ew_MT = NULL /\ ew_T = NULL
    /\ ew_info = "none"
    /\ ew_tmp = Ew_tmp_none

\* many patterns of A and B, all matrices by column, no transpose
EwInit_data ==
    \E C_replace \in BOOLEAN, Mask_comp \in BOOLEAN, eWiseAdd \in BOOLEAN,
       accum \in {NULL, Builtin("MINUS", "UINT8")},
       M \in {NULL, Ew_Mask(TRUE)}, PA \in Ew_Patterns, PB \in Ew_Patterns :
        Ew_Start(Ew_Arg(C_replace, Mask_comp, accum, Builtin("MINUS", "UINT8"),
                        FALSE, FALSE, eWiseAdd),
                 Ew_C({<<0, 0>>, <<0, 1>>}, TRUE), M, Ew_A(PA, TRUE), Ew_B(PB, TRUE))

\* every orientation of C, M, A and B and every transpose flag
EwInit_layout ==
    \E C_replace \in BOOLEAN, Mask_comp \in BOOLEAN, eWiseAdd \in BOOLEAN,
       accum \in {NULL, Builtin("MINUS", "UINT8")},
       A_transpose \in BOOLEAN, B_transpose \in BOOLEAN,
       C_is_csc \in BOOLEAN, A_is_csc \in BOOLEAN, B_is_csc \in BOOLEAN,
       M \in {NULL, Ew_Mask(TRUE), Ew_Mask(FALSE)} :
        Ew_Start(Ew_Arg(C_replace, Mask_comp, accum, Builtin("MINUS", "UINT8"),
                        A_transpose, B_transpose, eWiseAdd),
                 Ew_C({<<0, 0>>, <<1, 0>>}, C_is_csc), M, Ew_A_int8(A_is_csc),
                 Ew_B({<<0, 0>>, <<0, 1>>, <<1, 1>>}, B_is_csc))

\* scenario S5: C = [[1,0],[0,1]], A = [[0,2],[3,0]], B = [[0,0],[0,4]],
\* op = PLUS, accum = PLUS
EwInit_S5 ==
    \E C_is_csc \in BOOLEAN, A_is_csc \in BOOLEAN :
        Ew_Start(Ew_Arg(FALSE, FALSE, Builtin("PLUS", "UINT8"), Builtin("PLUS", "UINT8"),
                        FALSE, FALSE, TRUE),
                 Ew_Matrix("UINT8", Ew_N, Ew_N, C_is_csc, (<<0, 0>> :> 1) @@ (<<1, 1>> :> 1)),
                 NULL,
                 Ew_Matrix("UINT8", Ew_N, Ew_N, A_is_csc, (<<0, 1>> :> 2) @@ (<<1, 0>> :> 3)),
                 Ew_Matrix("UINT8", Ew_N, Ew_N, TRUE, (<<1, 1>> :> 4)))

\* M, A and B with pending tuples and zombies; C with or without them
EwInit_pending ==
    \E C_replace \in BOOLEAN,
       Mask_comp \in BOOLEAN, eWiseAdd \in BOOLEAN, A_transpose \in BOOLEAN,
       M \in {NULL, set_element(Ew_Mask(TRUE), 1, 0, 1)},
       accum \in {NULL, Builtin("MINUS", "UINT8")},
       C \in {Ew_C({<<0, 0>>}, TRUE),
              set_element(assign_delete(Ew_C({<<0, 0>>, <<1, 0>>}, TRUE), 1), 1, 1, 5)} :
        Ew_Start(Ew_Arg(C_replace, Mask_comp, accum, Builtin("MINUS", "UINT8"),
                        A_transpose, FALSE, eWiseAdd),
                 C, M,
                 set_element(assign_delete(Ew_A({<<0, 0>>, <<1, 0>>, <<1, 1>>}, TRUE), 1),
                             0, 1, 9),
                 set_element(Ew_B({<<0, 0>>}, TRUE), 1, 1, 7))

\* matrices that are not square, and types that are not compatible
EwInit_mismatch ==
    \/ \E eWiseAdd \in BOOLEAN, A_transpose \in BOOLEAN, B_transpose \in BOOLEAN,
          A_is_csc \in BOOLEAN, Mask_comp \in BOOLEAN,
          C \in {Ew_C({<<0, 0>>}, TRUE),
                 Ew_Matrix("UINT8", Ew_N, 1, TRUE, (<<1, 0>> :> 100))},
          AE \in {[nrows |-> Ew_N, ncols |-> 1, E |-> (<<1, 0>> :> 1)],
                  [nrows |-> 1, ncols |-> Ew_N, E |-> (<<0, 1>> :> 1)]},
          B \in {Ew_B({<<0, 1>>}, TRUE),
                 Ew_Matrix("UINT8", Ew_N, 1, TRUE, (<<0, 0>> :> 10) @@ (<<1, 0>> :> 30))} :
            \E A \in {Ew_Matrix("UINT8", AE.nrows, AE.ncols, A_is_csc, AE.E),
                       set_element(Ew_Matrix("UINT8", AE.nrows, AE.ncols, A_is_csc, AE.E),
                                   0, 0, 9)} :
                Ew_Start(Ew_Arg(FALSE, Mask_comp, NULL, Builtin("MINUS", "UINT8"),
                                A_transpose, B_transpose, eWiseAdd),
                         C, NULL, A, B)
    \/ \E eWiseAdd \in BOOLEAN,
          accum \in {NULL, Builtin("FIRST", "UDT")},
          op \in {Builtin("MINUS", "UINT8"), BinaryOp("SECOND", "UDT", "UINT8", "UINT8")} :
            Ew_Start(Ew_Arg(FALSE, FALSE, accum, op, FALSE, FALSE, eWiseAdd),
                     Ew_C({<<0, 0>>}, TRUE), NULL,
                     Ew_Matrix("UDT", Ew_N, Ew_N, TRUE, (<<0, 0>> :> 1)),
                     Ew_B({<<0, 0>>, <<1, 1>>}, TRUE))

EwInit ==
    \/ EwInit_data \/ EwInit_layout \/ EwInit_S5 \/ EwInit_pending
    \/ EwInit_mismatch

\* lines 60-87: a type is not compatible
EwDomainMismatch ==
    /\ ew_pc = "start"
    /\ GB_eWise_check(ew_arg, ew_C, ew_M, ew_A, ew_B) = "GrB_DOMAIN_MISMATCH"
    /\ ew_pc' = "done"
    /\ ew_info' = "GrB_DOMAIN_MISMATCH"
    /\ UNCHANGED <<ew_arg, ew_C, ew_M, ew_A, ew_B, ew_A_transpose, ew_B_transpose,
                   ew_MT, ew_T, ew_tmp, ewOthers>>

\* lines 89-107: the dimensions are not equal
EwDimensionMismatch ==
    /\ ew_pc = "start"
    /\ GB_eWise_check(ew_arg, ew_C, ew_M, ew_A, ew_B) = "GrB_DIMENSION_MISMATCH"
    /\ ew_pc' = "done"
    /\ ew_info' = "GrB_DIMENSION_MISMATCH"
    /\ UNCHANGED <<ew_arg, ew_C, ew_M, ew_A, ew_B, ew_A_transpose, ew_B_transpose,
                   ew_MT, ew_T, ew_tmp, ewOthers>>

\* lines 60-107: the checks pass
EwCheck ==
    /\ ew_pc = "start"
    /\ GB_eWise_check(ew_arg, ew_C, ew_M, ew_A, ew_B) = "GrB_SUCCESS"
    /\ ew_pc' = "checked"
    /\ UNCHANGED <<ew_arg, ew_C, ew_M, ew_A, ew_B, ew_A_transpose, ew_B_transpose,
                   ew_MT, ew_T, ew_info, ew_tmp, ewOthers>>

\* the quick return with C left as it is, whatever C_replace is
EwQuickMask_keep ==
    /\ ew_pc = "checked"
    /\ ew_M = NULL /\ ew_arg.Mask_comp
    /\ ew_pc' = "done"
    /\ ew_info' = "GrB_SUCCESS"
    /\ UNCHANGED <<ew_arg, ew_C, ew_M, ew_A, ew_B, ew_A_transpose, ew_B_transpose,
                   ew_MT, ew_T, ew_tmp, ewOthers>>

\* line 110: an empty mask is complemented, so no position is admitted
EwQuickMask ==
    /\ ew_pc = "checked"
    /\ ew_M = NULL /\ ew_arg.Mask_comp
    /\ ew_C' = IF ew_arg.C_replace THEN GB_clear(ew_C) ELSE ew_C
    /\ ew_pc' = "done"
    /\ ew_info' = "GrB_SUCCESS"
    /\ UNCHANGED <<ew_arg, ew_M, ew_A, ew_B, ew_A_transpose, ew_B_transpose,
                   ew_MT, ew_T, ew_tmp, ewOthers>>

\* the transpose flags conformed with M, A and B left as they are
EwWait_skip ==
    /\ ew_pc = "checked"
    /\ ~(ew_M = NULL /\ ew_arg.Mask_comp)
    /\ ew_A_transpose' = GB_eWise_flip(ew_C.is_csc, ew_A.is_csc, ew_A_transpose)
    /\ ew_B_transpose' = GB_eWise_flip(ew_C.is_csc, ew_B.is_csc, ew_B_transpose)
    /\ ew_pc' = "waited"
    /\ UNCHANGED <<ew_arg, ew_C, ew_M, ew_A, ew_B, ew_MT, ew_T, ew_info, ew_tmp, ewOthers>>

\* lines 112-137: M, A and B are finalised (C is not) and the transpose
\* flags are conformed to the orientation of C
EwWait ==
    /\ ew_pc = "checked"
    /\ ~(ew_M = NULL /\ ew_arg.Mask_comp)
    /\ ew_M' = IF ew_M = NULL THEN NULL ELSE GB_MATRIX_WAIT(ew_M)
    /\ ew_A' = GB_MATRIX_WAIT(ew_A)
    /\ ew_B' = GB_MATRIX_WAIT(ew_B)
    /\ ew_A_transpose' = GB_eWise_flip(ew_C.is_csc, ew_A.is_csc, ew_A_transpose)
    /\ ew_B_transpose' = GB_eWise_flip(ew_C.is_csc, ew_B.is_csc, ew_B_transpose)
    /\ ew_pc' = "waited"
    /\ UNCHANGED <<ew_arg, ew_C, ew_MT, ew_T, ew_info, ew_tmp, ewOthers>>

\* lines 139-149: the mask is transposed if needed
EwTransposeMask ==
    /\ ew_pc = "waited"
    /\ IF GB_eWise_MT_needed(ew_C.is_csc, ew_M, ew_A_transpose, ew_B_transpose)
       THEN /\ ew_MT' = GB_transpose("BOOL", ew_C.is_csc, ew_M)
            /\ ew_tmp' = GB_MATRIX_NEW(ew_tmp, "MT")
       ELSE /\ ew_MT' = NULL
            /\ ew_tmp' = ew_tmp
    /\ ew_pc' = "masked"
    /\ UNCHANGED <<ew_arg, ew_C, ew_M, ew_A, ew_B, ew_A_transpose, ew_B_transpose,
                   ew_T, ew_info, ewOthers>>

\* line 148: GB_transpose of the mask fails, and GB_OK frees all and returns
EwTransposeMaskFail ==
    /\ ew_pc = "waited"
    /\ GB_eWise_MT_needed(ew_C.is_csc, ew_M, ew_A_transpose, ew_B_transpose)
    /\ ew_tmp' = GB_FREE_ALL(ew_tmp, FALSE)
    /\ ew_pc' = "done"
    /\ ew_info' = "GrB_OUT_OF_MEMORY"
    /\ UNCHANGED <<ew_arg, ew_C, ew_M, ew_A, ew_B, ew_A_transpose, ew_B_transpose,
                   ew_MT, ew_T, ewOthers>>

\* the pointer the transposed input is made through: the AT declared at
\* line 189 for T = A'+B, BT for T = A+B', none otherwise
GB_eWise_temporary(A_transpose, B_transpose) ==
    IF A_transpose /\ ~B_transpose THEN {"AT_189"}
    ELSE IF B_transpose /\ ~A_transpose THEN {"BT"}
    ELSE {}

\* lines 191, 221: GB_transpose of A or of B fails, and GB_OK frees all and
\* returns
EwTransposeFail ==
    /\ ew_pc = "masked"
    /\ GB_eWise_temporary(ew_A_transpose, ew_B_transpose) # {}
    /\ ew_tmp' = GB_FREE_ALL(ew_tmp, ew_A_transpose)
    /\ ew_MT' = NULL
    /\ ew_pc' = "done"
    /\ ew_info' = "GrB_OUT_OF_MEMORY"
    /\ UNCHANGED <<ew_arg, ew_C, ew_M, ew_A, ew_B, ew_A_transpose, ew_B_transpose,
                   ew_T, ewOthers>>

\* the temporaries once AT or BT, if any, has been made
Ew_tmp_made ==
    IF GB_eWise_temporary(ew_A_transpose, ew_B_transpose) = {} THEN ew_tmp
    ELSE GB_MATRIX_NEW(ew_tmp,
             CHOOSE ptr \in GB_eWise_temporary(ew_A_transpose, ew_B_transpose) : TRUE)

\* lines 169-252: GB_add or GB_emult fails, and GB_OK frees all and returns;
\* within the block of lines 180-206 the name AT is the AT of line 189
EwTFail ==
    /\ ew_pc = "masked"
    /\ ew_tmp' = GB_FREE_ALL(Ew_tmp_made, ew_A_transpose /\ ~ew_B_transpose)
    /\ ew_MT' = NULL
    /\ ew_pc' = "done"
    /\ ew_info' = "GrB_OUT_OF_MEMORY"
    /\ UNCHANGED <<ew_arg, ew_C, ew_M, ew_A, ew_B, ew_A_transpose, ew_B_transpose,
                   ew_T, ewOthers>>

\* lines 204, 234: GB_MATRIX_FREE (&AT) or GB_MATRIX_FREE (&BT) once T is
\* computed
Ew_tmp_T ==
    IF GB_eWise_temporary(ew_A_transpose, ew_B_transpose) = {} THEN ew_tmp
    ELSE GB_MATRIX_FREE(Ew_tmp_made,
             CHOOSE ptr \in GB_eWise_temporary(ew_A_transpose, ew_B_transpose) : TRUE)

\* lines 151-255 with eWiseAdd: T is the set union
EwAdd ==
    /\ ew_pc = "masked"
    /\ ew_arg.eWiseAdd
    /\ ew_T' = GB_eWise_T(ew_arg, ew_C.is_csc, ew_M, ew_MT, ew_A, ew_B,
                          ew_A_transpose, ew_B_transpose)
    /\ ew_tmp' = [Ew_tmp_T EXCEPT !.made["T"] = @ + 1]
    /\ ew_pc' = "T"
    /\ UNCHANGED <<ew_arg, ew_C, ew_M, ew_A, ew_B, ew_A_transpose, ew_B_transpose,
                   ew_MT, ew_info, ewOthers>>

\* lines 151-255 without eWiseAdd: T is the set intersection
EwMult ==
    /\ ew_pc = "masked"
    /\ ~ew_arg.eWiseAdd
    /\ ew_T' = GB_eWise_T(ew_arg, ew_C.is_csc, ew_M, ew_MT, ew_A, ew_B,
                          ew_A_transpose, ew_B_transpose)
    /\ ew_tmp' = [Ew_tmp_T EXCEPT !.made["T"] = @ + 1]
    /\ ew_pc' = "T"
    /\ UNCHANGED <<ew_arg, ew_C, ew_M, ew_A, ew_B, ew_A_transpose, ew_B_transpose,
                   ew_MT, ew_info, ewOthers>>

\* lines 257-263: C<M> = accum (C,T), then the temporaries are freed
EwAccumMask ==
    /\ ew_pc = "T"
    /\ ew_C' = GB_accum_mask(ew_C, ew_M, ew_MT, ew_arg.accum, ew_T,
                             ew_arg.C_replace, ew_arg.Mask_comp)
    /\ ew_MT' = NULL
    /\ ew_tmp' = GB_FREE_ALL([ew_tmp EXCEPT !.freed["T"] = @ + 1], FALSE)
    /\ ew_pc' = "done"
    /\ ew_info' = "GrB_SUCCESS"
    /\ UNCHANGED <<ew_arg, ew_M, ew_A, ew_B, ew_A_transpose, ew_B_transpose,
                   ew_T, ewOthers>>

\* lines 261-263: GB_accum_mask fails: it has freed T; the temporaries are
\* freed and its status is returned
EwAccumMaskFail ==
    /\ ew_pc = "T"
    /\ ew_T' = NULL
    /\ ew_MT' = NULL
    /\ ew_tmp' = GB_FREE_ALL([ew_tmp EXCEPT !.freed["T"] = @ + 1], FALSE)
    /\ ew_pc' = "done"
    /\ ew_info' = "GrB_OUT_OF_MEMORY"
    /\ UNCHANGED <<ew_arg, ew_C, ew_M, ew_A, ew_B, ew_A_transpose, ew_B_transpose,
                   ewOthers>>

(***************************************************************************)
(* GB_AxB_dot2_compmask: C<!M> = A'*B via dot products.  Phase 1 counts    *)
(* the entries of each C(:,j) per slice of A; phase 2 writes them.         *)
(***************************************************************************)

\* the largest number of threads that run tasks at once
MaxDotThreads == 2
\* the number of vectors of A (the rows of C) and of B (the vectors of C)
Dot_anvec == 3
Dot_bnvec == 2

DotIdle ==
    /\ dot_phase = "idle"
    /\ dot_in = NULL
    /\ dot_task = << >>
    /\ dot_C_counts = << >>
    /\ dot_Cp = << >>
    /\ dot_Ci = << >>
    /\ dot_log = NULL

\* the patterns of A: the inner indices of each vector A(:,i)
Dot_A_samples ==
    {[i \in 0..(Dot_anvec - 1) |-> {0}],
     [i \in 0..(Dot_anvec - 1) |-> {i % 2}],
     [i \in 0..(Dot_anvec - 1) |-> IF i = 1 THEN {} ELSE {0, 1}]}

\* the patterns of B: the inner indices of each vector B(:,j)
Dot_B_samples ==
    {[j \in 0..(Dot_bnvec - 1) |-> {0, 1}],
     [j \in 0..(Dot_bnvec - 1) |-> IF j = 0 THEN {} ELSE {0}],
     [j \in 0..(Dot_bnvec - 1) |-> {j % 2}]}

\* the masks: no entry; M(j,j) true and M(j+1,j) false; every entry present
\* and true where i+j is odd
Dot_M_samples ==
    {[pos \in {} |-> 0],
     [pos \in {pos \in (0..(Dot_anvec - 1)) \X (0..(Dot_bnvec - 1)) :
                 pos[1] = pos[2] \/ pos[1] = pos[2] + 1}
        |-> IF pos[1] = pos[2] THEN 1 ELSE 0],
     [pos \in (0..(Dot_anvec - 1)) \X (0..(Dot_bnvec - 1)) |-> (pos[1] + pos[2]) % 2]}

\* the slices of n vectors: one slice, or two (the first may be empty)
Dot_slices(n) == {<<0, n>>} \cup {<<0, s, n>> : s \in 0..(n - 1)}

\* a task that has not started
Dot_ready == [pc |-> "ready", Iter_k |-> 0, i |-> 0, cnz |-> 0, cnz_last |-> 0]

\* the tasks (a_taskid, b_taskid) of the collapsed parallel loop
Dot_tasks == (0..(dot_in.naslice - 1)) \X (0..(dot_in.nbslice - 1))

DotInit ==
    /\ dot_phase = "phase1"
    /\ \E A \in Dot_A_samples, B \in Dot_B_samples, M \in Dot_M_samples,
          A_slice \in Dot_slices(Dot_anvec), B_slice \in Dot_slices(Dot_bnvec),
          nthreads \in {1, MaxDotThreads} :
          dot_in = [A |-> A, B |-> B, M |-> M,
                    A_slice |-> A_slice, naslice |-> Len(A_slice) - 1,
                    B_slice |-> B_slice, nbslice |-> Len(B_slice) - 1,
                    nthreads |-> nthreads]
    /\ dot_task = [t \in Dot_tasks |-> Dot_ready]
    /\ dot_C_counts = [a \in 1..dot_in.naslice |-> [k \in 1..Dot_bnvec |-> 0]]
    /\ dot_Cp = [k \in 1..(Dot_bnvec + 1) |-> 0]
    /\ dot_Ci = << >>
    /\ dot_log = [dots |-> {}, writes |-> {}]

\* the last position taken as the end of C(:,j), whatever the slice
GB_dot2_cnz_last_unsliced(Cp, C_count_end, Iter_k) == At(Cp, Iter_k + 1) - 1

\* M(i,j) taken as true wherever M has an entry
GB_dot2_mij_present(M, i, j) == <<i, j>> \in DOMAIN M

\* lines 26-27: the counts of the slices before this one
GB_C_count_start(C_counts, a_taskid) ==
    IF a_taskid = 0 THEN NULL ELSE At(C_counts, a_taskid)

\* lines 28-29: the counts of the slices up to and including this one
GB_C_count_end(C_counts, a_taskid, naslice) ==
    IF a_taskid = naslice - 1 THEN NULL ELSE At(C_counts, a_taskid + 1)

\* the first position taken as the start of C(:,j), whatever the slice
GB_dot2_cnz_unsliced(Cp, C_count_start, Iter_k) == At(Cp, Iter_k)

\* lines 63-64: the first position of C(:,j) this task computes
GB_dot2_cnz(Cp, C_count_start, Iter_k) ==
    At(Cp, Iter_k) + (IF C_count_start = NULL THEN 0 ELSE At(C_count_start, Iter_k))

\* lines 65-67: the last position of C(:,j) this task computes
GB_dot2_cnz_last(Cp, C_count_end, Iter_k) ==
    IF C_count_end = NULL THEN At(Cp, Iter_k + 1) - 1
    ELSE At(Cp, Iter_k) + At(C_count_end, Iter_k) - 1

\* lines 94-101: M(i,j), false if M has no entry there
GB_dot2_mij(M, i, j) == <<i, j>> \in DOMAIN M /\ M[<<i, j>>] # 0

\* GB_AxB_dot_cij.c: the dot product A(:,i)'*B(:,j) has a value when the
\* two patterns intersect
GB_dot_cij_exists(A, B, i, j) == A[i] \cap B[j] # {}

RECURSIVE GB_dot2_sum(_, _, _)
\* the counts of slices 0..a-1 for vector k
GB_dot2_sum(C_counts, a, k) ==
    IF a = 0 THEN 0 ELSE GB_dot2_sum(C_counts, a - 1, k) + At(At(C_counts, a - 1), k)

RECURSIVE GB_dot2_Cp(_, _, _)
\* the entries of vectors 0..k-1 of C
GB_dot2_Cp(C_counts, naslice, k) ==
    IF k = 0 THEN 0
    ELSE GB_dot2_Cp(C_counts, naslice, k - 1) + GB_dot2_sum(C_counts, naslice, k - 1)

\* lines 12-14 (schedule (dynamic,1)): a thread that is free takes a task
DotStart ==
    /\ dot_phase \in {"phase1", "phase2"}
    /\ Cardinality({t \in Dot_tasks : dot_task[t].pc \in {"vector", "entry"}})
         < dot_in.nthreads
    /\ \E t \in Dot_tasks :
          /\ dot_task[t].pc = "ready"
          /\ dot_task' = [dot_task EXCEPT ![t].pc = "vector",
                                          ![t].Iter_k = At(dot_in.B_slice, t[2])]
    /\ UNCHANGED <<dot_phase, dot_in, dot_C_counts, dot_Cp, dot_Ci, dot_log, dotOthers>>

\* lines 43-69: the next vector B(:,j) of the task's slice of B; in phase 2
\* the range cnz..cnz_last of C(:,j) the task computes
DotVector ==
    /\ dot_phase \in {"phase1", "phase2"}
    /\ \E t \in Dot_tasks :
          LET a_taskid == t[1]
              b_taskid == t[2]
              Iter_k == dot_task[t].Iter_k
              cnz == GB_dot2_cnz(dot_Cp, GB_C_count_start(dot_C_counts, a_taskid), Iter_k)
              cnz_last == GB_dot2_cnz_last(dot_Cp,
                              GB_C_count_end(dot_C_counts, a_taskid, dot_in.naslice),
                              Iter_k)
          IN  /\ dot_task[t].pc = "vector"
              /\ dot_task' =
                   IF Iter_k >= At(dot_in.B_slice, b_taskid + 1)
                   THEN [dot_task EXCEPT ![t].pc = "finished"]
                   ELSE IF dot_in.B[Iter_k] = {}
                   THEN [dot_task EXCEPT ![t].Iter_k = Iter_k + 1]
                   ELSE IF dot_phase = "phase2" /\ cnz > cnz_last
                   THEN [dot_task EXCEPT ![t].Iter_k = Iter_k + 1]
                   ELSE [dot_task EXCEPT ![t].pc = "entry",
                                         ![t].i = At(dot_in.A_slice, a_taskid),
                                         ![t].cnz = IF dot_phase = "phase2" THEN cnz ELSE 0,
                                         ![t].cnz_last =
                                             IF dot_phase = "phase2" THEN cnz_last ELSE 0]
    /\ UNCHANGED <<dot_phase, dot_in, dot_C_counts, dot_Cp, dot_Ci, dot_log, dotOthers>>

\* lines 87-107: the next vector A(:,i) of the task's slice of A; if the
\* mask does not hold at (i,j) and the dot product has a value, phase 1
\* counts it and phase 2 writes Ci [cnz++] = i
DotEntry ==
    /\ dot_phase \in {"phase1", "phase2"}
    /\ \E t \in Dot_tasks :
          LET a_taskid == t[1]
              j == dot_task[t].Iter_k
              i == dot_task[t].i
              mij == GB_dot2_mij(dot_in.M, i, j)
              cij == /\ ~mij
                     /\ GB_dot_cij_exists(dot_in.A, dot_in.B, i, j)
              dots == IF mij THEN dot_log.dots
                      ELSE dot_log.dots \cup {<<i, j>>}
          IN  /\ dot_task[t].pc = "entry"
              /\ IF i >= At(dot_in.A_slice, a_taskid + 1)
                 THEN /\ dot_task' = [dot_task EXCEPT ![t].pc = "vector",
                                                      ![t].Iter_k = j + 1]
                      /\ UNCHANGED <<dot_C_counts, dot_Ci, dot_log>>
                 ELSE IF ~cij
                 THEN /\ dot_task' = [dot_task EXCEPT ![t].i = i + 1]
                      /\ dot_log' = [dot_log EXCEPT !.dots = dots]
                      /\ UNCHANGED <<dot_C_counts, dot_Ci>>
                 ELSE IF dot_phase = "phase1"
                 THEN /\ dot_task' = [dot_task EXCEPT ![t].i = i + 1]
                      /\ dot_C_counts' = [dot_C_counts EXCEPT ![a_taskid + 1][j + 1] = @ + 1]
                      /\ dot_log' = [dot_log EXCEPT !.dots = dots]
                      /\ UNCHANGED dot_Ci
                 ELSE /\ dot_task' = [dot_task EXCEPT ![t].i = i + 1,
                                                      ![t].cnz = @ + 1]
                      /\ dot_Ci' = (dot_task[t].cnz :> i) @@ dot_Ci
                      /\ dot_log' = [dots |-> dots,
                                     writes |-> dot_log.writes
                                                  \cup {<<t, j, i, dot_task[t].cnz>>}]
                      /\ UNCHANGED dot_C_counts
    /\ UNCHANGED <<dot_phase, dot_in, dot_Cp, dotOthers>>

\* between the phases: Cp from the total counts, and C_counts [a][k]
\* replaced by the counts of the slices before a
DotCumsum ==
    /\ dot_phase = "phase1"
    /\ \A t \in Dot_tasks : dot_task[t].pc = "finished"
    /\ dot_Cp' = [k \in 1..(Dot_bnvec + 1) |->
                    GB_dot2_Cp(dot_C_counts, dot_in.naslice, k - 1)]
    /\ dot_C_counts' = [a \in 1..dot_in.naslice |->
                          [k \in 1..Dot_bnvec |-> GB_dot2_sum(dot_C_counts, a - 1, k - 1)]]
    /\ dot_task' = [t \in Dot_tasks |-> Dot_ready]
    /\ dot_phase' = "phase2"
    /\ dot_log' = [dot_log EXCEPT !.dots = {}]
    /\ UNCHANGED <<dot_in, dot_Ci, dotOthers>>

\* the end of the parallel loop of phase 2
DotDone ==
    /\ dot_phase = "phase2"
    /\ \A t \in Dot_tasks : dot_task[t].pc = "finished"
    /\ dot_phase' = "done"
    /\ UNCHANGED <<dot_in, dot_task, dot_C_counts, dot_Cp, dot_Ci, dot_log, dotOthers>>

(***************************************************************************)
(* GB_AgusB__min_rdiv_int8 and GB_AgusB__max_rminus_uint8: C<M> = A*B and  *)
(* C = A*B by the gather/scatter method of Gustavson.  The same A and B    *)
(* are multiplied twice, with the mask M and with no mask.                  *)
(***************************************************************************)

\* the dimension of A, B, C and M
Gus_N == 2
\* the multiplies with a mask that use one Sauna, one after the other
MaxMultiplies == 2

GusIdle ==
    /\ gus_in = NULL
    /\ gus_mask = NULL
    /\ gus_nomask = NULL
    /\ gus_dot = NULL
    /\ gus_heap = NULL

\* GB_IDIV_SIGNED (x,y,bits): x / y rounded toward zero; x / -1 is -x;
\* 0 / 0 is 0, and x / 0 is the least or the greatest value of the type
GB_IDIV_SIGNED(x, y, bits) ==
    LET abs(v) == IF v < 0 THEN -v ELSE v
        q == abs(x) \div abs(y)
    IN  IF y = -1 THEN -x
        ELSE IF y = 0
        THEN IF x = 0 THEN 0
             ELSE IF x < 0 THEN -(2 ^ (bits - 1)) ELSE 2 ^ (bits - 1) - 1
        ELSE IF (x < 0) # (y < 0) THEN -q ELSE q

\* the two semirings: Z type, GB_IDENTITY and the terminal value
GB_AxB__min_rdiv_int8 ==
    [name |-> "min_rdiv_int8", ztype |-> "INT8", identity |-> 127, terminal |-> -128]
GB_AxB__max_rminus_uint8 ==
    [name |-> "max_rminus_uint8", ztype |-> "UINT8", identity |-> 0, terminal |-> 255]

\* Multiply: z = GB_IDIV_SIGNED (y,x,8), or z = y - x, stored in the Z type
GB_MULT(semiring, aik, bkj) ==
    GB_cast_factory(semiring.ztype, semiring.ztype,
        IF semiring.name = "min_rdiv_int8" THEN GB_IDIV_SIGNED(bkj, aik, 8)
        ELSE bkj - aik)

\* Add: cij = GB_IMIN (cij,z), or cij = GB_IMAX (cij,z)
GB_ADD(semiring, cij, z) ==
    IF semiring.name = "min_rdiv_int8" THEN GB_IMIN(cij, z) ELSE GB_IMAX(cij, z)

\* GB_CLEARW: Sauna_Work [i] = identity
GB_CLEARW(Sauna_Work, i, identity) == [Sauna_Work EXCEPT ![i] = identity]

\* GB_MULTADD_NOMASK: Sauna_Work [i] += A(i,k) * B(k,j)
GB_MULTADD_NOMASK(semiring, Sauna_Work, i, aik, bkj) ==
    [Sauna_Work EXCEPT ![i] = GB_ADD(semiring, Sauna_Work[i], GB_MULT(semiring, aik, bkj))]

\* the product always added to the slot, never initialising it
GB_MULTADD_WITH_MASK_add(semiring, Sauna, hiwater, i, aik, bkj) ==
    [Sauna EXCEPT !.Work = GB_MULTADD_NOMASK(semiring, Sauna.Work, i, aik, bkj),
                  !.Mark[i] = hiwater + 1]

\* the first product initialises the slot and leaves its mark alone
GB_MULTADD_WITH_MASK_unmarked(semiring, Sauna, hiwater, i, aik, bkj) ==
    IF Sauna.Mark[i] = hiwater
    THEN [Sauna EXCEPT !.Work[i] = GB_MULT(semiring, aik, bkj)]
    ELSE [Sauna EXCEPT !.Work = GB_MULTADD_NOMASK(semiring, Sauna.Work, i, aik, bkj)]

\* the first product initialises the slot and marks it hiwater+2
GB_MULTADD_WITH_MASK_above(semiring, Sauna, hiwater, i, aik, bkj) ==
    IF Sauna.Mark[i] = hiwater
    THEN [Sauna EXCEPT !.Work[i] = GB_MULT(semiring, aik, bkj),
                       !.Mark[i] = hiwater + 2]
    ELSE [Sauna EXCEPT !.Work = GB_MULTADD_NOMASK(semiring, Sauna.Work, i, aik, bkj)]

\* GB_MULTADD_WITH_MASK: the first product for C(i,j) initialises the slot
\* and marks it hiwater+1; a later one is added
GB_MULTADD_WITH_MASK(semiring, Sauna, hiwater, i, aik, bkj) ==
    IF Sauna.Mark[i] = hiwater
    THEN [Sauna EXCEPT !.Work[i] = GB_MULT(semiring, aik, bkj),
                       !.Mark[i] = hiwater + 1]
    ELSE [Sauna EXCEPT !.Work = GB_MULTADD_NOMASK(semiring, Sauna.Work, i, aik, bkj)]

RECURSIVE GB_gus_products(_, _)
\* the products of vector j in the order they are computed: for each B(k,j),
\* for each A(i,k), the triple <<i, aik, bkj>>
GB_gus_products(A, b) ==
    IF b = << >> THEN << >>
    ELSE [q \in 1..Len(GB_vector(A, Head(b)[1])) |->
             <<GB_vector(A, Head(b)[1])[q][1], GB_vector(A, Head(b)[1])[q][2], Head(b)[2]>>]
         \o GB_gus_products(A, Tail(b))

RECURSIVE GB_gus_scatter_mask(_, _, _)
\* M(:,j) scattered into Sauna_Mark: hiwater where M(i,j) is true
GB_gus_scatter_mask(Mark, hiwater, m) ==
    IF m = << >> THEN Mark
    ELSE GB_gus_scatter_mask(
             IF GB_cast_factory("BOOL", "BOOL", Head(m)[2]) = 1
             THEN [Mark EXCEPT ![Head(m)[1]] = hiwater] ELSE Mark,
             hiwater, Tail(m))

RECURSIVE GB_gus_saxpy_mask(_, _, _, _)
\* the products of one vector, each skipped if its mark is below hiwater
GB_gus_saxpy_mask(semiring, Sauna, hiwater, prods) ==
    IF prods = << >> THEN Sauna
    ELSE GB_gus_saxpy_mask(semiring,
             IF Sauna.Mark[Head(prods)[1]] < hiwater THEN Sauna
             ELSE GB_MULTADD_WITH_MASK(semiring, Sauna, hiwater,
                      Head(prods)[1], Head(prods)[2], Head(prods)[3]),
             hiwater, Tail(prods))

RECURSIVE GB_gus_gather_mask(_, _, _)
\* the entries of M(:,j) whose mark is hiwater+1 gathered into C(:,j)
GB_gus_gather_mask(Sauna, hiwater, m) ==
    IF m = << >> THEN << >>
    ELSE (IF Sauna.Mark[Head(m)[1]] = hiwater + 1
          THEN <<<<Head(m)[1], Sauna.Work[Head(m)[1]]>>>> ELSE << >>)
         \o GB_gus_gather_mask(Sauna, hiwater, Tail(m))

RECURSIVE GB_gus_clear(_, _, _)
\* the slots of the pattern of C(:,j) set to the identity
GB_gus_clear(Sauna_Work, identity, pattern) ==
    IF pattern = << >> THEN Sauna_Work
    ELSE GB_gus_clear(GB_CLEARW(Sauna_Work, Head(pattern), identity), identity,
                      Tail(pattern))

RECURSIVE GB_gus_saxpy_nomask(_, _, _)
\* the products of one vector, each added to its slot
GB_gus_saxpy_nomask(semiring, Sauna_Work, prods) ==
    IF prods = << >> THEN Sauna_Work
    ELSE GB_gus_saxpy_nomask(semiring,
             GB_MULTADD_NOMASK(semiring, Sauna_Work,
                 Head(prods)[1], Head(prods)[2], Head(prods)[3]),
             Tail(prods))

\* C(:,j) of C<M> = A*B, and the Sauna it leaves: hiwater advances by two,
\* so that every mark left by an earlier vector is below it
GB_gus_vector_mask(semiring, Sauna, M, A, B, j) ==
    LET hiwater == Sauna.hiwater + 2
        scattered == [Sauna EXCEPT !.hiwater = hiwater,
                         !.Mark = GB_gus_scatter_mask(Sauna.Mark, hiwater, GB_vector(M, j))]
        after == GB_gus_saxpy_mask(semiring, scattered, hiwater,
                                   GB_gus_products(A, GB_vector(B, j)))
    IN  [Sauna |-> after, vec |-> GB_gus_gather_mask(after, hiwater, GB_vector(M, j)),
         hiwater |-> hiwater, scattered |-> scattered]

\* C(:,j) of C = A*B, and the Sauna_Work it leaves: the pattern of C(:,j)
\* is found first, in increasing order
GB_gus_vector_nomask(semiring, Sauna_Work, A, B, j) ==
    LET prods == GB_gus_products(A, GB_vector(B, j))
        pattern == GB_ascending({prods[q][1] : q \in 1..Len(prods)})
        after == GB_gus_saxpy_nomask(semiring,
                     GB_gus_clear(Sauna_Work, semiring.identity, pattern), prods)
    IN  [Sauna_Work |-> after,
         vec |-> [q \in 1..Len(pattern) |-> <<pattern[q], after[pattern[q]]>>]]

\* the multiply of the dot product kernel with x and y not flipped
GB_DOT_MULT_xy(semiring, aki, bkj) ==
    GB_cast_factory(semiring.ztype, semiring.ztype,
        IF semiring.name = "min_rdiv_int8" THEN GB_IDIV_SIGNED(aki, bkj, 8)
        ELSE aki - bkj)

\* GB_DOT_MULT: t = aki*bkj, that is GB_IDIV_SIGNED (bkj,aki,8) or bkj - aki
GB_DOT_MULT(semiring, aki, bkj) ==
    GB_cast_factory(semiring.ztype, semiring.ztype,
        IF semiring.name = "min_rdiv_int8" THEN GB_IDIV_SIGNED(bkj, aki, 8)
        ELSE bkj - aki)

\* GB_DOT_ADD: cij += t
GB_DOT_ADD(semiring, cij, t) ==
    IF semiring.name = "min_rdiv_int8" THEN GB_IMIN(cij, t) ELSE GB_IMAX(cij, t)

\* GB_DOT_TERMINAL (cij): if (cij == INT8_MIN) break, if (cij == UINT8_MAX) break
GB_DOT_TERMINAL(semiring, cij) == cij = semiring.terminal

RECURSIVE GB_dot_cij(_, _, _, _)
\* cij = A(:,i)'*B(:,j) over the indices ks both vectors have, in increasing
\* order: GB_DOT_COPY for the first product, GB_DOT_ADD for a later one, and
\* the loop left once cij is the terminal value
GB_dot_cij(semiring, ks, cij, cij_exists) ==
    IF ks = << >> THEN cij
    ELSE LET t == GB_DOT_MULT(semiring, Head(ks)[1], Head(ks)[2])
             c == IF cij_exists THEN GB_DOT_ADD(semiring, cij, t) ELSE t
         IN  IF GB_DOT_TERMINAL(semiring, c) THEN c
             ELSE GB_dot_cij(semiring, Tail(ks), c, TRUE)

\* the pairs <<aki, bkj>> of A'(:,i) = At(:,i) and b = B(:,j), for the indices
\* k in order
GB_dot_pairs(At_i, b, order) ==
    LET val(v, k) == v[CHOOSE q \in 1..Len(v) : v[q][1] = k][2]
        common == {k \in {At_i[q][1] : q \in 1..Len(At_i)} :
                     \E q \in 1..Len(b) : b[q][1] = k}
        ks == SelectSeq(order, LAMBDA k : k \in common)
    IN  [q \in 1..Len(ks) |-> <<val(At_i, ks[q]), val(b, ks[q])>>]

RECURSIVE GB_dot_vector(_, _, _, _, _)
\* C(:,j) of C = A'*B by dot products, for i = i, ..., vdim-1: GB_DOT_SAVE
\* where the two vectors have an index in common
GB_dot_vector(semiring, AT, B, j, i) ==
    IF i >= AT.vdim THEN << >>
    ELSE LET ks == GB_dot_pairs(GB_vector(AT, i), GB_vector(B, j),
                                [q \in 1..AT.vlen |-> q - 1])
         IN  (IF ks = << >> THEN << >>
              ELSE <<<<i, GB_dot_cij(semiring, ks, semiring.identity, FALSE)>>>>)
             \o GB_dot_vector(semiring, AT, B, j, i + 1)

\* GB_CIJ_MULT: cij = A(i,k) * B(k,j)
GB_CIJ_MULT(semiring, aik, bkj) ==
    GB_cast_factory(semiring.ztype, semiring.ztype,
        IF semiring.name = "min_rdiv_int8" THEN GB_IDIV_SIGNED(bkj, aik, 8)
        ELSE bkj - aik)

\* GB_CIJ_MULTADD: C(i,j) += A(i,k) * B(k,j)
GB_CIJ_MULTADD(semiring, cij, aik, bkj) ==
    LET t == GB_cast_factory(semiring.ztype, semiring.ztype,
                 IF semiring.name = "min_rdiv_int8" THEN GB_IDIV_SIGNED(bkj, aik, 8)
                 ELSE bkj - aik)
    IN  IF semiring.name = "min_rdiv_int8" THEN GB_IMIN(cij, t) ELSE GB_IMAX(cij, t)

RECURSIVE GB_heap_cij(_, _, _, _)
\* the products of C(i,j) as the heap hands them over: GB_CIJ_MULT for the
\* first, GB_CIJ_MULTADD for a later one
GB_heap_cij(semiring, ks, cij, first) ==
    IF ks = << >> THEN cij
    ELSE GB_heap_cij(semiring, Tail(ks),
             IF first THEN GB_CIJ_MULT(semiring, Head(ks)[1], Head(ks)[2])
             ELSE GB_CIJ_MULTADD(semiring, cij, Head(ks)[1], Head(ks)[2]),
             FALSE)

\* the orders in which the heap can hand over the products of one C(i,j)
GB_heap_orders(n) ==
    {order \in [1..n -> 0..(n - 1)] :
        \A q1 \in 1..n, q2 \in 1..n : order[q1] = order[q2] => q1 = q2}

RECURSIVE GB_heap_vector(_, _, _, _, _, _)
\* C(:,j) of C = A*B by the heap: the entries come out by increasing i, the
\* products of one i in the order of the heap
GB_heap_vector(semiring, AT, B, j, i, order) ==
    IF i >= AT.vdim THEN << >>
    ELSE LET ks == GB_dot_pairs(GB_vector(AT, i), GB_vector(B, j), order)
         IN  (IF ks = << >> THEN << >>
              ELSE <<<<i, GB_heap_cij(semiring, ks, semiring.identity, TRUE)>>>>)
             \o GB_heap_vector(semiring, AT, B, j, i + 1, order)

\* sample values: A(r,c) and B(r,c) of the semiring's type
Gus_A_value(semiring) ==
    IF semiring.ztype = "INT8"
    THEN (<<0, 0>> :> 2) @@ (<<0, 1>> :> -1) @@ (<<1, 0>> :> 0) @@ (<<1, 1>> :> 3)
    ELSE (<<0, 0>> :> 1) @@ (<<0, 1>> :> 9) @@ (<<1, 0>> :> 3) @@ (<<1, 1>> :> 200)

Gus_B_value(semiring) ==
    IF semiring.ztype = "INT8"
    THEN (<<0, 0>> :> -128) @@ (<<0, 1>> :> 7) @@ (<<1, 0>> :> -6) @@ (<<1, 1>> :> 0)
    ELSE (<<0, 0>> :> 5) @@ (<<0, 1>> :> 0) @@ (<<1, 0>> :> 255) @@ (<<1, 1>> :> 8)

\* the entries of value at the positions P
Gus_Matrix(semiring, P, value) ==
    Ew_Matrix(semiring.ztype, Gus_N, Gus_N, TRUE, [pos \in P |-> value[pos]])

\* a mask with every position present and true
Gus_all_ones ==
    Ew_Matrix("BOOL", Gus_N, Gus_N, TRUE,
              [pos \in (0..(Gus_N - 1)) \X (0..(Gus_N - 1)) |-> 1])

\* a mask with M(0,0) present and false, M(0,1) and M(1,1) present and true
Gus_partial ==
    Ew_Matrix("BOOL", Gus_N, Gus_N, TRUE,
              (<<0, 0>> :> 0) @@ (<<0, 1>> :> 1) @@ (<<1, 1>> :> 1))

\* a Sauna left by earlier use: every mark is at most hiwater+1
Gus_Saunas(semiring) ==
    {[hiwater |-> 0, Mark |-> [i \in 0..(Gus_N - 1) |-> 0],
      Work |-> [i \in 0..(Gus_N - 1) |-> semiring.identity]],
     [hiwater |-> 4, Mark |-> [i \in 0..(Gus_N - 1) |-> 4 + (i % 2)],
      Work |-> [i \in 0..(Gus_N - 1) |-> 7]]}

GusInit ==
    /\ \E semiring \in {GB_AxB__min_rdiv_int8, GB_AxB__max_rminus_uint8},
          PA \in Ew_Patterns, PB \in Ew_Patterns,
          M \in {Gus_all_ones, Gus_partial},
          accum \in {NULL, Builtin("PLUS", "UINT8")} :
          /\ gus_in = [semiring |-> semiring,
                       A |-> Gus_Matrix(semiring, PA, Gus_A_value(semiring)),
                       B |-> Gus_Matrix(semiring, PB, Gus_B_value(semiring)),
                       M |-> M, accum |-> accum,
                       C |-> Ew_Matrix(semiring.ztype, Gus_N, Gus_N, TRUE,
                                       (<<0, 0>> :> 1) @@ (<<1, 0>> :> 2))]
          /\ \E Sauna \in Gus_Saunas(semiring) :
                /\ gus_mask = [j |-> 0, Sauna |-> Sauna, run |-> 1, M |-> M,
                               vecs |-> [k \in 0..(Gus_N - 1) |-> << >>], C |-> NULL]
                /\ gus_nomask = [j |-> 0, Sauna_Work |-> Sauna.Work,
                                 vecs |-> [k \in 0..(Gus_N - 1) |-> << >>], C |-> NULL]
    /\ gus_dot = [j |-> 0, vecs |-> [k \in 0..(Gus_N - 1) |-> << >>]]
    /\ gus_heap = [j |-> 0, vecs |-> [k \in 0..(Gus_N - 1) |-> << >>]]

\* the matrix T = A*B from the vectors computed
Gus_T(vecs) ==
    GB_build(GB_new(gus_in.semiring.ztype, Gus_N, Gus_N, TRUE), vecs)

\* C<M> = A*B, one vector: scatter M(:,j), multiply and add, gather
GusMaskVector ==
    /\ gus_in # NULL
    /\ gus_mask.j < Gus_N
    /\ LET r == GB_gus_vector_mask(gus_in.semiring, gus_mask.Sauna, gus_mask.M,
                                   gus_in.A, gus_in.B, gus_mask.j)
       IN  gus_mask' = [gus_mask EXCEPT !.j = @ + 1, !.Sauna = r.Sauna,
                                        !.vecs[gus_mask.j] = r.vec]
    /\ UNCHANGED <<gus_in, gus_nomask, gus_dot, gus_heap, gusOthers>>

\* C = A*B, one vector: clear the slots, multiply and add, gather
GusNoMaskVector ==
    /\ gus_in # NULL
    /\ gus_nomask.j < Gus_N
    /\ LET r == GB_gus_vector_nomask(gus_in.semiring, gus_nomask.Sauna_Work,
                                     gus_in.A, gus_in.B, gus_nomask.j)
       IN  gus_nomask' = [gus_nomask EXCEPT !.j = @ + 1, !.Sauna_Work = r.Sauna_Work,
                                            !.vecs[gus_nomask.j] = r.vec]
    /\ UNCHANGED <<gus_in, gus_mask, gus_dot, gus_heap, gusOthers>>

\* the same Sauna is used by one more multiply with a mask, its marks and
\* hiwater as the one before left them
GusReuse ==
    /\ gus_in # NULL
    /\ gus_mask.C # NULL
    /\ gus_mask.run < MaxMultiplies
    /\ \E M \in {Gus_all_ones, Gus_partial} :
          gus_mask' = [j |-> 0, Sauna |-> gus_mask.Sauna, run |-> gus_mask.run + 1,
                       M |-> M, vecs |-> [k \in 0..(Gus_N - 1) |-> << >>],
                       C |-> NULL]
    /\ UNCHANGED <<gus_in, gus_nomask, gus_dot, gus_heap, gusOthers>>

\* A' as the dot product kernel is handed it
Gus_At == GB_transpose(gus_in.semiring.ztype, TRUE, gus_in.A)

\* C = A'*B by dot products, one vector
GusDotVector ==
    /\ gus_in # NULL
    /\ gus_dot.j < Gus_N
    /\ gus_dot' = [gus_dot EXCEPT !.j = @ + 1,
                      !.vecs[gus_dot.j] =
                          GB_dot_vector(gus_in.semiring, Gus_At, gus_in.B, gus_dot.j, 0)]
    /\ UNCHANGED <<gus_in, gus_mask, gus_nomask, gus_heap, gusOthers>>

\* C = A*B by the heap, one vector
GusHeapVector ==
    /\ gus_in # NULL
    /\ gus_heap.j < Gus_N
    /\ \E order \in GB_heap_orders(Gus_N) :
          gus_heap' = [gus_heap EXCEPT !.j = @ + 1,
                          !.vecs[gus_heap.j] =
                              GB_heap_vector(gus_in.semiring, Gus_At, gus_in.B,
                                             gus_heap.j, 0, order)]
    /\ UNCHANGED <<gus_in, gus_mask, gus_nomask, gus_dot, gusOthers>>

\* mxm with the mask M: C<M> = accum (C,T)
GusMaskAccum ==
    /\ gus_in # NULL
    /\ gus_mask.j = Gus_N /\ gus_mask.C = NULL
    /\ gus_mask' = [gus_mask EXCEPT !.C =
                       GB_accum_mask(gus_in.C, gus_mask.M, NULL, gus_in.accum,
                                     Gus_T(gus_mask.vecs), FALSE, FALSE)]
    /\ UNCHANGED <<gus_in, gus_nomask, gus_dot, gus_heap, gusOthers>>

\* mxm with no mask: C = accum (C,T)
GusNoMaskAccum ==
    /\ gus_in # NULL
    /\ gus_nomask.j = Gus_N /\ gus_nomask.C = NULL
    /\ gus_nomask' = [gus_nomask EXCEPT !.C =
                         GB_accum_mask(gus_in.C, NULL, NULL, gus_in.accum,
                                       Gus_T(gus_nomask.vecs), FALSE, FALSE)]
    /\ UNCHANGED <<gus_in, gus_mask, gus_dot, gus_heap, gusOthers>>

(***************************************************************************)
(* The unary apply kernels: GB_unop_apply__minv_uint32_uint32 and          *)
(* GB_unop__ainv_fp64_fp32                                                 *)
(***************************************************************************)

\* the largest number of entries of Ax
MaxApplyNnz == 3
\* the largest nthreads
MaxApplyThreads == 2

ApIdle ==
    /\ ap_pc = "idle"
    /\ ap_in = NULL
    /\ ap_Ax = << >>
    /\ ap_Cx = << >>
    /\ ap_thread = << >>
    /\ ap_trace = NULL
    /\ ap_info = "none"

\* a uint32_t is held as its two 16-bit halves <<high, low>>
GB_uint32(high, low) == <<high, low>>
UINT32_MAX == GB_uint32(2 ^ 16 - 1, 2 ^ 16 - 1)

\* the multiplicative inverse of an unsigned integer of 32 bits: 1/0 is the
\* largest value, 1/1 is 1, 1/x is 0 otherwise
GB_IMINV_UNSIGNED(x, bits) ==
    IF x = GB_uint32(0, 0) THEN GB_uint32(2 ^ (bits \div 2) - 1, 2 ^ (bits \div 2) - 1)
    ELSE IF x = GB_uint32(0, 1) THEN GB_uint32(0, 1)
    ELSE GB_uint32(0, 0)

\* double z = x, for a float x: every float is a double
GB_CASTING_fp64_fp32(x) == x

\* what a kernel stores for aij: the cast, then the operator
GB_CAST_OP(kernel, aij) ==
    IF kernel = "minv_uint32_uint32"
    THEN GB_IMINV_UNSIGNED(aij, 32)
    ELSE 0 - GB_CASTING_fp64_fp32(aij)

\* the arrays Ax on entry: uint32 values, and floats that are whole numbers;
\* the arrays have one position more than the anz the kernel is given
Ap_Ax(kernel, anz) ==
    IF kernel = "minv_uint32_uint32"
    THEN {[p \in 1..(anz + 1) |->
              <<GB_uint32(0, 0), GB_uint32(0, 2), GB_uint32(0, 1), UINT32_MAX>>
                  [1 + ((p + d) % 4)]] : d \in 0..1}
    ELSE {[p \in 1..(anz + 1) |-> (p + d) * (2 * (p % 2) - 1)] : d \in 0..1}

\* schedule(static): the iterations 0..anz-1 are cut into nthreads chunks of
\* consecutive iterations, one per thread; start [t] is the first iteration
\* of thread t and start [nthreads] is anz
Ap_static(anz, nthreads) ==
    {start \in [0..nthreads -> 0..anz] :
        /\ start[0] = 0
        /\ start[nthreads] = anz
        /\ \A t \in 0..(nthreads - 1) : start[t] <= start[t + 1]}

\* Cx on entry when it is not Ax: values the kernel never stores
Ap_Cx(kernel, anz) ==
    [p \in 1..(anz + 1) |-> IF kernel = "minv_uint32_uint32" THEN GB_uint32(7, 7) ELSE 77]

ApInit ==
    /\ ap_pc = "start"
    /\ \E kernel \in {"minv_uint32_uint32", "ainv_fp64_fp32"},
          anz \in 0..MaxApplyNnz, nthreads \in 1..MaxApplyThreads,
          alias \in BOOLEAN, disabled \in BOOLEAN :
        \* Cx and Ax of GB_unop__ainv_fp64_fp32 are restrict pointers to
        \* different types, and it has no GB_DISABLE
        /\ kernel = "ainv_fp64_fp32" => (~alias /\ ~disabled)
        /\ \E Ax \in Ap_Ax(kernel, anz), start \in Ap_static(anz, nthreads) :
            /\ ap_in = [kernel |-> kernel, anz |-> anz, nthreads |-> nthreads,
                        alias |-> alias, GB_DISABLE |-> disabled, start |-> start,
                        Ax |-> Ax, Cx |-> IF alias THEN Ax ELSE Ap_Cx(kernel, anz)]
            /\ ap_Ax = Ax
            /\ ap_Cx = IF alias THEN Ax ELSE Ap_Cx(kernel, anz)
    /\ ap_thread = << >>
    /\ ap_trace = NULL
    /\ ap_info = "none"

\* #if GB_DISABLE: return (GrB_NO_VALUE)
ApDisabled ==
    /\ ap_pc = "start"
    /\ ap_in.GB_DISABLE
    /\ ap_pc' = "done"
    /\ ap_info' = "GrB_NO_VALUE"
    /\ UNCHANGED <<ap_in, ap_Ax, ap_Cx, ap_thread, ap_trace, apOthers>>

\* #pragma omp parallel for num_threads(nthreads) schedule(static)
ApFork ==
    /\ ap_pc = "start"
    /\ ~ap_in.GB_DISABLE
    /\ ap_pc' = "run"
    /\ ap_thread' = [t \in 0..(ap_in.nthreads - 1) |->
                        [pc |-> IF ap_in.start[t] < ap_in.start[t + 1]
                                THEN "read" ELSE "done",
                         p |-> ap_in.start[t], end |-> ap_in.start[t + 1],
                         aij |-> NULL]]
    /\ ap_trace' = [reads |-> [p \in 0..(ap_in.anz - 1) |-> 0],
                    writes |-> [p \in 0..(ap_in.anz - 1) |-> 0],
                    stale |-> {}, early |-> {}]
    /\ UNCHANGED <<ap_in, ap_Ax, ap_Cx, ap_info, apOthers>>

\* aij = Ax [p]
ApRead ==
    /\ ap_pc = "run"
    /\ \E t \in DOMAIN ap_thread :
        LET th == ap_thread[t]
        IN  /\ th.pc = "read"
            /\ ap_thread' = [ap_thread EXCEPT ![t].pc = "write",
                                              ![t].aij = ap_Ax[th.p + 1]]
            /\ ap_trace' = [ap_trace EXCEPT
                   !.reads[th.p] = @ + 1,
                   !.stale = IF ap_in.alias /\ ap_trace.writes[th.p] > 0
                             THEN @ \cup {th.p} ELSE @]
    /\ UNCHANGED <<ap_pc, ap_in, ap_Ax, ap_Cx, ap_info, apOthers>>

\* Cx [anz-1-p] = op (cast (aij)): the write lands on the position of
\* another iteration
ApWrite_mirror ==
    /\ ap_pc = "run"
    /\ \E t \in DOMAIN ap_thread :
        LET th == ap_thread[t]
            q == ap_in.anz - 1 - th.p
            Cx == [ap_Cx EXCEPT ![q + 1] = GB_CAST_OP(ap_in.kernel, th.aij)]
        IN  /\ th.pc = "write"
            /\ ap_Cx' = Cx
            /\ ap_Ax' = IF ap_in.alias THEN Cx ELSE ap_Ax
            /\ ap_thread' = [ap_thread EXCEPT
                   ![t].p = th.p + 1,
                   ![t].pc = IF th.p + 1 < th.end THEN "read" ELSE "done"]
            /\ ap_trace' = [ap_trace EXCEPT
                   !.writes[q] = @ + 1,
                   !.early = IF ap_trace.reads[q] # 1 THEN @ \cup {q} ELSE @]
    /\ UNCHANGED <<ap_pc, ap_in, ap_info, apOthers>>

\* Cx [p] = op (cast (aij)), and the next iteration of the thread's chunk
ApWrite ==
    /\ ap_pc = "run"
    /\ \E t \in DOMAIN ap_thread :
        LET th == ap_thread[t]
            Cx == [ap_Cx EXCEPT ![th.p + 1] = GB_CAST_OP(ap_in.kernel, th.aij)]
        IN  /\ th.pc = "write"
            /\ ap_Cx' = Cx
            /\ ap_Ax' = IF ap_in.alias THEN Cx ELSE ap_Ax
            /\ ap_thread' = [ap_thread EXCEPT
                   ![t].p = th.p + 1,
                   ![t].pc = IF th.p + 1 < th.end THEN "read" ELSE "done"]
            /\ ap_trace' = [ap_trace EXCEPT
                   !.writes[th.p] = @ + 1,
                   !.early = IF ap_trace.reads[th.p] # 1 THEN @ \cup {th.p} ELSE @]
    /\ UNCHANGED <<ap_pc, ap_in, ap_info, apOthers>>

\* the end of the parallel loop: return (GrB_SUCCESS), or return from the
\* void kernel
ApJoin ==
    /\ ap_pc = "run"
    /\ \A t \in DOMAIN ap_thread : ap_thread[t].pc = "done"
    /\ ap_pc' = "done"
    /\ ap_info' = IF ap_in.kernel = "minv_uint32_uint32" THEN "GrB_SUCCESS" ELSE "void"
    /\ UNCHANGED <<ap_in, ap_Ax, ap_Cx, ap_thread, ap_trace, apOthers>>

(***************************************************************************)
(* The triu selector: GB_sel_phase1__triu_any and GB_sel_phase2__triu_any  *)
(***************************************************************************)

\* the dimension of the matrix A
Sel_N == 3

SelIdle ==
    /\ sel_pc = "idle"
    /\ sel_in = NULL
    /\ sel_Zp = << >>
    /\ sel_Cp = << >>
    /\ sel_Ci = << >>
    /\ sel_Cx = << >>
    /\ sel_vecs = NULL

\* A stored by column with the entries of the rows R and the columns Cc;
\* A(r,c) = Sel_N * r + c + 1
Sel_A(R, Cc) ==
    Ew_Matrix("UINT8", Sel_N, Sel_N, TRUE,
              [pos \in R \X Cc |-> Sel_N * pos[1] + pos[2] + 1])

SelInit ==
    /\ sel_pc = "phase1"
    /\ \E R \in SUBSET (0..(Sel_N - 1)), Cc \in SUBSET (0..(Sel_N - 1)),
          ithunk \in (1 - Sel_N)..(Sel_N - 1) :
        sel_in = [A |-> Sel_A(R, Cc), ithunk |-> ithunk]
    /\ sel_Zp = [k \in 0..(Sel_N - 1) |-> -1]
    /\ sel_Cp = [k \in 0..Sel_N |-> 0]
    /\ sel_Ci = << >>
    /\ sel_Cx = << >>
    /\ sel_vecs = [counted |-> {}, written |-> {}, cjnz |-> [k \in 0..(Sel_N - 1) |-> 0]]

\* the entry of index i of vector j is kept
GB_TRIU_SELECTOR(i, j, ithunk) == j - i >= ithunk

\* Zp [k]: the position of the first entry of vector k that is not kept, or
\* the end of the vector
GB_sel_triu_Zp(A, k, ithunk) ==
    LET pA_start == At(A.p, k)
        pA_end == At(A.p, k + 1)
        out == {q \in pA_start..(pA_end - 1) : ~GB_TRIU_SELECTOR(A.i[q + 1], k, ithunk)}
    IN  IF out = {} THEN pA_end ELSE CHOOSE q \in out : \A r \in out : q <= r

\* phase 1, vector k: Zp [k], and the count of kept entries in Cp [k]
SelCount ==
    /\ sel_pc = "phase1"
    /\ \E k \in (0..(sel_in.A.vdim - 1)) \ sel_vecs.counted :
        LET Zp == GB_sel_triu_Zp(sel_in.A, k, sel_in.ithunk)
        IN  /\ sel_Zp' = [sel_Zp EXCEPT ![k] = Zp]
            /\ sel_Cp' = [sel_Cp EXCEPT ![k] = Zp - At(sel_in.A.p, k)]
            /\ sel_vecs' = [sel_vecs EXCEPT !.counted = @ \cup {k}]
    /\ UNCHANGED <<sel_pc, sel_in, sel_Ci, sel_Cx, selOthers>>

RECURSIVE GB_sel_sum(_, _)
\* Cp [0] + ... + Cp [k-1]
GB_sel_sum(Cp, k) == IF k = 0 THEN 0 ELSE GB_sel_sum(Cp, k - 1) + Cp[k - 1]

\* between the phases: Cp becomes the cumulative sum of the counts, and Ci
\* and Cx are allocated
SelCumsum ==
    /\ sel_pc = "phase1"
    /\ sel_vecs.counted = 0..(sel_in.A.vdim - 1)
    /\ sel_Cp' = [k \in 0..sel_in.A.vdim |-> GB_sel_sum(sel_Cp, k)]
    /\ sel_Ci' = [q \in 1..GB_sel_sum(sel_Cp, sel_in.A.vdim) |-> -1]
    /\ sel_Cx' = [q \in 1..GB_sel_sum(sel_Cp, sel_in.A.vdim) |-> -1]
    /\ sel_pc' = "phase2"
    /\ UNCHANGED <<sel_in, sel_Zp, sel_vecs, selOthers>>

\* phase 2, vector k, copying the entries at the end of the vector
SelWrite_tail ==
    /\ sel_pc = "phase2"
    /\ \E k \in (0..(sel_in.A.vdim - 1)) \ sel_vecs.written :
        LET A == sel_in.A
            pA_start == At(A.p, k)
            pA_end == GB_IMIN(sel_Zp[k], At(A.p, k + 1))
            cjnz == pA_end - pA_start
            from == At(A.p, k + 1) - cjnz
            pC == sel_Cp[k]
        IN  /\ sel_Ci' = [q \in 1..Len(sel_Ci) |->
                            IF q - 1 \in pC..(pC + cjnz - 1)
                            THEN A.i[from + (q - 1 - pC) + 1] ELSE sel_Ci[q]]
            /\ sel_Cx' = [q \in 1..Len(sel_Cx) |->
                            IF q - 1 \in pC..(pC + cjnz - 1)
                            THEN A.x[from + (q - 1 - pC) + 1] ELSE sel_Cx[q]]
            /\ sel_vecs' = [sel_vecs EXCEPT !.written = @ \cup {k}, !.cjnz[k] = cjnz]
    /\ UNCHANGED <<sel_pc, sel_in, sel_Zp, sel_Cp, selOthers>>

\* phase 2, vector k: the entries pA_start .. Zp [k]-1 of A are copied to C
\* at Cp [k]
SelWrite ==
    /\ sel_pc = "phase2"
    /\ \E k \in (0..(sel_in.A.vdim - 1)) \ sel_vecs.written :
        LET A == sel_in.A
            pA_start == At(A.p, k)
            pA_end == GB_IMIN(sel_Zp[k], At(A.p, k + 1))
            cjnz == pA_end - pA_start
            pC == sel_Cp[k]
        IN  /\ sel_Ci' = [q \in 1..Len(sel_Ci) |->
                            IF q - 1 \in pC..(pC + cjnz - 1)
                            THEN A.i[pA_start + (q - 1 - pC) + 1] ELSE sel_Ci[q]]
            /\ sel_Cx' = [q \in 1..Len(sel_Cx) |->
                            IF q - 1 \in pC..(pC + cjnz - 1)
                            THEN A.x[pA_start + (q - 1 - pC) + 1] ELSE sel_Cx[q]]
            /\ sel_vecs' = [sel_vecs EXCEPT !.written = @ \cup {k}, !.cjnz[k] = cjnz]
    /\ UNCHANGED <<sel_pc, sel_in, sel_Zp, sel_Cp, selOthers>>

\* every vector has been written
SelDone ==
    /\ sel_pc = "phase2"
    /\ sel_vecs.written = 0..(sel_in.A.vdim - 1)
    /\ sel_pc' = "done"
    /\ UNCHANGED <<sel_in, sel_Zp, sel_Cp, sel_Ci, sel_Cx, sel_vecs, selOthers>>

NextReduce ==
    \/ RedDomainMismatch \/ RedCheck \/ RedWait \/ RedWaitFail
    \/ RedPlan \/ RedAlloc \/ RedAllocFail \/ RedEmpty \/ RedWorker
    \/ RedStart \/ RedStep \/ RedCopy \/ RedSum \/ RedAccum

InitReduce == RedInit /\ WaitIdle /\ EwIdle /\ DotIdle /\ GusIdle /\ ApIdle /\ SelIdle

SpecReduce == InitReduce /\ [][NextReduce]_vars

NextWait == SetElement \/ Assign \/ Wait \/ WaitOutOfMemory

InitWait == WaitInit /\ RedIdle /\ EwIdle /\ DotIdle /\ GusIdle /\ ApIdle /\ SelIdle

SpecWait == InitWait /\ [][NextWait]_vars

NextEWise ==
    \/ EwTransposeMaskFail \/ EwTransposeFail \/ EwTFail \/ EwAccumMaskFail
    \/ EwDomainMismatch \/ EwDimensionMismatch \/ EwCheck \/ EwQuickMask
    \/ EwWait \/ EwTransposeMask \/ EwAdd \/ EwMult \/ EwAccumMask

InitEWise == EwInit /\ WaitIdle /\ RedIdle /\ DotIdle /\ GusIdle /\ ApIdle /\ SelIdle

SpecEWise == InitEWise /\ [][NextEWise]_vars

NextDot == DotStart \/ DotVector \/ DotEntry \/ DotCumsum \/ DotDone

InitDot == DotInit /\ WaitIdle /\ RedIdle /\ EwIdle /\ GusIdle /\ ApIdle /\ SelIdle

SpecDot == InitDot /\ [][NextDot]_vars

(***************************************************************************)
(* Calls of GB_eWise and of GB_reduce_to_scalar on matrices stored by row  *)
(* and by column                                                           *)
(***************************************************************************)

\* X with the same entries, stored in the other orientation
Ew_reorient(X) ==
    Ew_Matrix(X.type, GB_NROWS(X), GB_NCOLS(X), ~X.is_csc, GB_entries(X))

\* a square matrix to reduce whose entries differ by position; A(1,0) is
\* the terminal value of MAX
Red_square(P, is_csc) ==
    Ew_Matrix("UINT8", Ew_N, Ew_N, is_csc,
              [pos \in P |-> IF pos = <<1, 0>> THEN 255 ELSE 1 + 2 * pos[1] + pos[2]])

\* square matrices of at most three entries in both orientations, one of
\* them with a zombie and a pending tuple
RedInit_square ==
    \/ \E reduce \in {GB_MAX_UINT8, GB_MIN_INT8, GB_PLUS_UINT8},
          nthreads_max \in {1, MaxThreads}, is_csc \in BOOLEAN,
          P \in {P \in Ew_Patterns : Cardinality(P) <= 3} :
            Red_Enter(Red_Arg("UINT8", NULL, reduce, nthreads_max, 1, 0, FALSE), 7,
                      Red_square(P, is_csc))
    \/ \E is_csc \in BOOLEAN, accum \in {NULL, Builtin("MINUS", "UINT8")} :
            Red_Enter(Red_Arg("UINT8", accum, GB_PLUS_UINT8, MaxThreads, 1, 0, FALSE), 7,
                      set_element(assign_delete(
                          Red_square({<<0, 0>>, <<0, 1>>, <<1, 0>>}, is_csc), 1), 1, 1, 9))

InitCalls ==
    \/ EwInit /\ WaitIdle /\ RedIdle /\ DotIdle /\ GusIdle /\ ApIdle /\ SelIdle
    \/ /\ RedInit_square \/ RedInit_mismatch
       /\ Red_Fresh
       /\ WaitIdle /\ EwIdle /\ DotIdle /\ GusIdle /\ ApIdle /\ SelIdle

NextCalls == NextEWise \/ NextReduce

SpecCalls == InitCalls /\ [][NextCalls]_vars

NextApply == ApDisabled \/ ApFork \/ ApRead \/ ApWrite \/ ApJoin

InitApply ==
    ApInit /\ WaitIdle /\ RedIdle /\ EwIdle /\ DotIdle /\ GusIdle /\ SelIdle

SpecApply == InitApply /\ [][NextApply]_vars

NextSelect == SelCount \/ SelCumsum \/ SelWrite \/ SelDone

InitSelect ==
    SelInit /\ WaitIdle /\ RedIdle /\ EwIdle /\ DotIdle /\ GusIdle /\ ApIdle

SpecSelect == InitSelect /\ [][NextSelect]_vars

NextGus ==
    \/ GusMaskVector \/ GusNoMaskVector \/ GusMaskAccum \/ GusNoMaskAccum
    \/ GusReuse

InitGus == GusInit /\ WaitIdle /\ RedIdle /\ EwIdle /\ DotIdle /\ ApIdle /\ SelIdle

SpecGus == InitGus /\ [][NextGus]_vars

\* the three kernels of one semiring on the same A and B, with no mask
NextAxB == GusNoMaskVector \/ GusDotVector \/ GusHeapVector

InitAxB == GusInit /\ WaitIdle /\ RedIdle /\ EwIdle /\ DotIdle /\ ApIdle /\ SelIdle

SpecAxB == InitAxB /\ [][NextAxB]_vars

(***************************************************************************)
(* Properties of GB_reduce_to_scalar                                       *)
(***************************************************************************)

RECURSIVE Red_Fold(_, _, _, _)
\* the monoid folded over the identity and the first n entries of Ax, each
\* typecast to the monoid's type
Red_Fold(reduce, atype, Ax, n) ==
    IF n = 0 THEN reduce.identity
    ELSE GB_binop(reduce.op, Red_Fold(reduce, atype, Ax, n - 1),
                  GB_cast_factory(reduce.op.ztype, atype, Ax[n]))

Red_Returned(info) == red_pc = "done" /\ red_info = info

\* the entries of task tid's slice
Red_SliceLen(tid) == At(red_plan.slice, tid + 1) - At(red_plan.slice, tid)

\* C1: with no accumulator, whenever the domains are compatible and no
\* allocation fails, GB_reduce_to_scalar returns Success and c is the fold of
\* the monoid over the identity and every entry of the finalised A, whatever
\* the number of tasks and the slices they own.
C1_ReduceIsFold ==
    (/\ red_pc = "done"
     /\ red_arg.accum = NULL
     /\ red_info \notin {"GrB_DOMAIN_MISMATCH", "GrB_OUT_OF_MEMORY"})
    => /\ red_info = "GrB_SUCCESS"
       /\ ~GB_PENDING_OR_ZOMBIES(red_A)
       /\ red_c = GB_cast_factory(red_arg.ctype, red_ztype,
                     Red_Fold(red_arg.reduce, red_A.type, red_A.x, Len(red_A.x)))

\* a reduction by three tasks, one of them owning two entries, that returned
\* Success with no accumulator
C1_Witness ==
    /\ Red_Returned("GrB_SUCCESS")
    /\ red_arg.accum = NULL
    /\ red_plan.ntasks = 3
    /\ \E tid \in 0..2 : Red_SliceLen(tid) = 2
    /\ red_worker = "generic_typecast"

\* C6: when A has no entries no task runs and s is the monoid identity; c
\* becomes the identity typecast to c's type, or accum (c, identity) when an
\* accumulator is given.
C6_EmptyIsIdentity ==
    (Red_Returned("GrB_SUCCESS") /\ red_plan.anz = 0)
    => /\ red_task = << >>
       /\ red_worker = "none"
       /\ red_s = red_arg.reduce.identity
       /\ red_arg.accum = NULL =>
             red_c = GB_cast_factory(red_arg.ctype, red_ztype, red_arg.reduce.identity)
       /\ red_arg.accum # NULL =>
             red_c = GB_cast_factory(red_arg.ctype, red_arg.accum.ztype,
                        GB_binop(red_arg.accum,
                            GB_cast_factory(red_arg.accum.xtype, red_arg.ctype, red_arg.c_in),
                            GB_cast_factory(red_arg.accum.ytype, red_ztype,
                                            red_arg.reduce.identity)))

\* an empty A reduced with an accumulator whose result differs from the old c
C6_Witness ==
    /\ Red_Returned("GrB_SUCCESS")
    /\ red_plan.anz = 0
    /\ red_arg.accum # NULL
    /\ red_c # red_arg.c_in

\* C7: if some entry of A, typecast to the monoid's type, is the terminal
\* value t, the reduction result s is t, wherever t is, however many tasks
\* there are and whichever tasks the early exit skips.
C7_TerminalShortCircuit ==
    (/\ Red_Returned("GrB_SUCCESS")
     /\ \E q \in 1..Len(red_A.x) :
           GB_cast_factory(red_ztype, red_A.type, red_A.x[q]) \in red_arg.reduce.terminal)
    => red_s \in red_arg.reduce.terminal

\* a reduction in which a task with a nonempty slice was skipped by the early
\* exit while another task found the terminal value
C7_Witness ==
    /\ Red_Returned("GrB_SUCCESS")
    /\ red_early_exit
    /\ \E tid \in 0..(red_plan.ntasks - 1) :
          /\ Red_SliceLen(tid) > 0
          /\ red_task[tid + 1].p = At(red_plan.slice, tid)
          /\ red_task[tid + 1].t = red_arg.reduce.identity
          /\ At(red_A.x, red_task[tid + 1].p) \notin red_arg.reduce.terminal

\* C8: with an accumulator the final c is
\* (ctype) accum ((xtype) old c, (ytype) s), the old c on the left; without
\* one it is (ctype) s, whatever the old c was.
C8_AccumCasts ==
    Red_Returned("GrB_SUCCESS")
    => IF red_arg.accum = NULL
       THEN red_c = GB_cast_factory(red_arg.ctype, red_ztype, red_s)
       ELSE red_c = GB_cast_factory(red_arg.ctype, red_arg.accum.ztype,
                       GB_binop(red_arg.accum,
                           GB_cast_factory(red_arg.accum.xtype, red_arg.ctype, red_arg.c_in),
                           GB_cast_factory(red_arg.accum.ytype, red_ztype, red_s)))

\* c = 1 - 255 computed by the MINUS accumulator: the old c is on the left
C8_Witness ==
    /\ Red_Returned("GrB_SUCCESS")
    /\ red_arg.accum = Builtin("MINUS", "UINT8")
    /\ red_arg.c_in = 1
    /\ red_s = 255
    /\ red_c = 2

\* the result of the whole reduction as a function of the call's inputs
\* alone: A finalised, its entries folded in storage order, then c = s or
\* c = accum (c,s)
Red_Result(arg, A_in) ==
    LET A == GB_MATRIX_WAIT(A_in)
        s == Red_Fold(arg.reduce, A.type, A.x, Len(A.x))
    IN  [s |-> s,
         c |-> IF arg.accum = NULL
               THEN GB_cast_factory(arg.ctype, arg.reduce.op.ztype, s)
               ELSE GB_cast_factory(arg.ctype, arg.accum.ztype,
                        GB_binop(arg.accum,
                            GB_cast_factory(arg.accum.xtype, arg.ctype, arg.c_in),
                            GB_cast_factory(arg.accum.ytype, arg.reduce.op.ztype, s)))]

\* a task with entries to reduce that the early exit made skip them
Red_Skipped(tid) ==
    /\ Red_SliceLen(tid) > 0
    /\ red_task[tid + 1].pc = "done"
    /\ red_task[tid + 1].p = At(red_plan.slice, tid)
    /\ red_task[tid + 1].t = red_arg.reduce.identity

\* C12: for the integer types, s and c on a successful return are functions
\* of the inputs (c, accum, the monoid and A) alone: the number of threads,
\* the number of tasks, the slices, the interleaving of the tasks and the
\* set of tasks the early exit skips do not change them.
C12_Deterministic ==
    Red_Returned("GrB_SUCCESS")
    => /\ red_s = Red_Result(red_arg, red_arg.A_in).s
       /\ red_c = Red_Result(red_arg, red_arg.A_in).c

\* three tasks reduced three entries one of which is the terminal value; the
\* task that owns the first entry was skipped by the early exit and the task
\* that owns the second was not
C12_Witness ==
    /\ Red_Returned("GrB_SUCCESS")
    /\ red_plan.ntasks = 3 /\ red_plan.nthreads = 2
    /\ \A tid \in 0..2 : Red_SliceLen(tid) = 1
    /\ red_early_exit
    /\ Red_Skipped(0) /\ ~Red_Skipped(1)

\* the specialised worker was called and returned NoValue
Red_NoValue == red_pc \in {"tasks", "accum"} /\ red_info = "GrB_NO_VALUE"

\* C13: GB_reduce_to_scalar never returns NoValue; when the specialised
\* worker returns NoValue the generic worker (no typecast) computes s, and
\* the call then returns Success with s the fold of A's entries.
C13_NoValueNotReturned ==
    /\ red_pc = "done" => red_info # "GrB_NO_VALUE"
    /\ Red_NoValue => red_worker = "generic"
    /\ (red_pc = "done" /\ red_worker = "generic")
       => /\ red_info = "GrB_SUCCESS"
          /\ red_s = Red_Fold(red_arg.reduce, red_A.type, red_A.x, Len(red_A.x))

\* a disabled specialised worker: the generic worker reduced an entry and
\* the call returned Success
C13_Witness ==
    /\ Red_Returned("GrB_SUCCESS")
    /\ red_arg.GB_DISABLE
    /\ red_worker = "generic"
    /\ red_plan.anz = 1
    /\ red_s = GB_cast_factory(red_ztype, red_A.type, red_A.x[1])
    /\ red_s # red_arg.reduce.identity

\* type a cannot be typecast to type b: one of them is user-defined and they
\* are not the same type
Red_cannot_cast(a, b) == a # b /\ (a = "UDT" \/ b = "UDT")

\* the domains of the call do not fit
Red_mismatch ==
    \/ /\ red_arg.accum # NULL
       /\ \/ Red_cannot_cast(red_arg.ctype, red_arg.accum.ztype)
          \/ Red_cannot_cast(red_arg.ctype, red_arg.accum.xtype)
          \/ Red_cannot_cast(red_ztype, red_arg.accum.ytype)
    \/ Red_cannot_cast(red_arg.ctype, red_ztype)
    \/ Red_cannot_cast(red_arg.A_in.type, red_ztype)

\* C14: a call whose domains do not fit gets no further than the checks: it
\* returns DomainMismatch, and on that return A is as it was on entry (its
\* pending tuples and zombies included), c is unchanged, and neither the
\* tasks were planned nor W allocated.  DomainMismatch is returned for no
\* other reason.
C14_MismatchFirst ==
    /\ (red_pc # "check" /\ Red_mismatch) => Red_Returned("GrB_DOMAIN_MISMATCH")
    /\ Red_Returned("GrB_DOMAIN_MISMATCH")
       => /\ Red_mismatch
          /\ red_A = red_arg.A_in
          /\ red_c = red_arg.c_in
          /\ red_plan = NULL
          /\ red_W = NULL

\* DomainMismatch returned because of the accumulator, for an A of a
\* compatible type that still has its zombie and its pending tuple
C14_Witness ==
    /\ Red_Returned("GrB_DOMAIN_MISMATCH")
    /\ red_A.type = red_ztype /\ red_arg.ctype = red_ztype
    /\ red_A.nzombies = 1 /\ Len(red_A.Pending) = 1

\* the tasks of the parallel loop
Red_Tids == 0..(Len(red_task) - 1)

\* C18: (a) a task whose running value is the terminal value has set
\* early_exit and left its loop; (b) early_exit never goes from true to
\* false; (c) a task that reads early_exit as true goes straight to writing
\* W [tid] = identity, and no task changes its value once it left its loop;
\* (d) when the combine step runs every task has finished and W [tid] holds
\* its value; (e) early_exit stays false when the monoid has no terminal.
C18_EarlyExit ==
    /\ [](\A tid \in Red_Tids :
            (red_task[tid + 1].pc # "start"
             /\ red_task[tid + 1].t \in red_arg.reduce.terminal)
            => red_early_exit /\ red_task[tid + 1].pc \in {"copy", "done"})
    /\ [][red_early_exit => red_early_exit']_vars
    /\ [][\A tid \in Red_Tids :
            /\ (red_task[tid + 1].pc = "start" /\ red_early_exit
                /\ red_task'[tid + 1].pc # "start")
               => /\ red_task'[tid + 1].pc = "copy"
                  /\ red_task'[tid + 1].t = red_arg.reduce.identity
            /\ red_task[tid + 1].pc \in {"copy", "done"}
               => /\ red_task'[tid + 1].t = red_task[tid + 1].t
                  /\ red_task'[tid + 1].p = red_task[tid + 1].p]_vars
    /\ []((red_pc = "accum" /\ red_plan.anz # 0)
            => /\ Len(red_W) = red_plan.ntasks
               /\ \A tid \in Red_Tids :
                     /\ red_task[tid + 1].pc = "done"
                     /\ At(red_W, tid) = red_task[tid + 1].t)
    /\ [](red_arg.reduce.terminal = {} => ~red_early_exit)

\* a task found the terminal value, and a task that had entries wrote the
\* identity to W without reducing them; the combine step has run
C18_Witness ==
    /\ red_pc = "accum" /\ red_early_exit
    /\ \E tid \in Red_Tids :
          At(red_W, tid) \in red_arg.reduce.terminal
    /\ \E tid \in Red_Tids :
          Red_Skipped(tid) /\ At(red_W, tid) = red_arg.reduce.identity
    /\ red_s \in red_arg.reduce.terminal

\* the switch factory was launched: a specialised worker returned a status
Red_attempted == red_pc \in {"tasks", "accum"} /\ red_info # "none"

\* a worker has been chosen and its tasks created
Red_Chosen == red_task # << >>

\* C20 as stated: the specialised worker is attempted only for A of the
\* monoid's type with at least one entry, the generic worker with typecast
\* is the one used when the types differ, and on every path that returns a
\* result exactly one worker has produced s
C20_OneWorkerEveryPath ==
    /\ Red_attempted => red_A.type = red_ztype /\ red_plan.anz >= 1
    /\ (Red_Chosen /\ red_A.type # red_ztype)
       => red_worker = "generic_typecast" /\ ~Red_attempted
    /\ Red_Returned("GrB_SUCCESS")
       => red_worker \in {"GB_red", "generic", "generic_typecast"}

\* C20: the specialised worker is attempted only for A of the monoid's type
\* with at least one entry; when the types differ and A has an entry the
\* generic worker with typecast is used and no specialised worker is
\* called; when A has at least one entry exactly one worker produces s (the
\* specialised one, or the generic one without typecast if that returned
\* NoValue or does not exist, or the generic one with typecast); when A has
\* no entry no worker runs and s is the identity
C20_WorkerChoice ==
    /\ Red_attempted => red_A.type = red_ztype /\ red_plan.anz >= 1
    /\ (Red_Chosen /\ red_A.type # red_ztype)
       => red_worker = "generic_typecast" /\ ~Red_attempted
    /\ (Red_Chosen /\ red_A.type = red_ztype)
       => red_worker = (IF red_arg.GB_DISABLE THEN "generic" ELSE "GB_red")
    /\ Red_Returned("GrB_SUCCESS")
       => IF red_plan.anz = 0
          THEN red_worker = "none" /\ red_s = red_arg.reduce.identity
          ELSE red_worker \in {"GB_red", "generic", "generic_typecast"}

\* an int8 entry was reduced by the generic worker with typecast into a
\* uint8 monoid, no specialised worker having been called
C20_Witness ==
    /\ Red_Returned("GrB_SUCCESS")
    /\ red_A.type = "INT8" /\ red_ztype = "UINT8"
    /\ red_worker = "generic_typecast"
    /\ red_plan.anz = 1
    /\ red_A.x[1] < 0
    /\ red_s = red_A.x[1] + 256

\* between the allocation of W and GB_FREE (W)
Red_W_held == red_pc \in {"reduce", "tasks", "accum"}

\* C21 as stated: W has at least one slot on every path
C21_AtLeastOneSlot == red_plan # NULL => red_plan.ntasks >= 1

\* C21: on the CPU path ntasks >= 1 even when A has no entries, and on the
\* GPU path ntasks = ceil (anz / (8*512)), which is 0 when A has no entries;
\* W has ntasks slots from its allocation to GB_FREE (W), it is allocated
\* once, and no return leaves it allocated; if the allocation fails
\* OutOfMemory is returned with c unchanged and W not allocated.
C21_Workspace ==
    /\ [](red_plan # NULL =>
            /\ red_arg.ngpus_to_use = 0 => red_plan.ntasks >= 1
            /\ red_arg.ngpus_to_use > 0 =>
                  red_plan.ntasks = GB_ICEIL(red_plan.anz, 8 * 512))
    /\ [](Red_W_held => Len(red_W) = red_plan.ntasks)
    /\ [](~Red_W_held => red_W = NULL)
    /\ [](Red_Returned("GrB_OUT_OF_MEMORY") =>
            /\ red_c = red_arg.c_in
            /\ red_W = NULL /\ red_task = << >>)
    /\ [][Red_W_held /\ Red_W_held' => Len(red_W') = Len(red_W)]_vars
    /\ [][~Red_W_held /\ Red_W_held' => red_pc = "alloc"]_vars
    /\ [][red_pc = "alloc" =>
            \/ Red_W_held'
            \/ red_info' = "GrB_OUT_OF_MEMORY" /\ red_pc' = "done"]_vars

\* the GPU path has returned Success for an A with no entries: W had no
\* slot, and it has been released
C21_Witness ==
    /\ Red_Returned("GrB_SUCCESS")
    /\ red_arg.ngpus_to_use > 0
    /\ red_plan.anz = 0 /\ red_plan.ntasks = 0
    /\ red_W = NULL

(***************************************************************************)
(* Properties of wait                                                      *)
(***************************************************************************)

\* the positions of the live entries of A
GB_live(A) == {q \in 1..Len(A.i) : ~GB_IS_ZOMBIE(A.i[q])}

\* p[0] = 0 and p[nvec] = nvals + zombies
W_PointersOK(A) ==
    /\ At(A.p, 0) = 0
    /\ At(A.p, A.vdim) = Cardinality(GB_live(A)) + A.nzombies
    /\ Len(A.i) = At(A.p, A.vdim) /\ Len(A.x) = At(A.p, A.vdim)
    /\ \A k \in 0..(A.vdim - 1) : At(A.p, k) <= At(A.p, k + 1)

\* inner indices in range and strictly increasing within each vector
W_Sorted(A) ==
    /\ \A q \in 1..Len(A.i) : A.i[q] \in 0..(A.vlen - 1)
    /\ \A k \in 0..(A.vdim - 1) :
          \A q \in (At(A.p, k) + 1)..(At(A.p, k + 1) - 1) : A.i[q] < A.i[q + 1]

\* C5: after any sequence of set_element / assign mutations, a wait that
\* returns Success leaves A with no pending tuples and no zombies, with
\* p[0] = 0, p[nvec] = nvals + zombies and strictly increasing indices in
\* each vector, and a second wait changes nothing.
C5_WaitFinalises ==
    /\ w_last # "idle" => W_PointersOK(w_A)
    /\ w_last = "wait" =>
          /\ w_A.Pending = << >>
          /\ w_A.nzombies = 0
          /\ W_Sorted(w_A)
          /\ GB_wait(w_A) = w_A

\* a wait that merged a pending tuple into an existing entry with the PLUS
\* operator (1 + 2 = 3) next to an untouched entry of the same vector
C5_Witness ==
    /\ w_last = "wait"
    /\ w_nops = MaxOps
    /\ w_A.Pending_op # NULL
    /\ w_A.i = <<0, 1>>
    /\ w_A.x = <<3, 1>>

(***************************************************************************)
(* Properties of GB_eWise                                                  *)
(***************************************************************************)

\* the positions of C
Ew_Positions == (0..(GB_NROWS(ew_C) - 1)) \X (0..(GB_NCOLS(ew_C) - 1))

\* the operand the descriptor asks for (X, or X' if transpose) has an entry
\* at (r,c), and its value
Ew_in_has(X, transpose, r, c) ==
    IF transpose THEN GB_has(X, c, r) ELSE GB_has(X, r, c)
Ew_in_value(X, transpose, r, c) ==
    IF transpose THEN GB_value(X, c, r) ELSE GB_value(X, r, c)

\* the mask of the call admits position (r,c)
Ew_admits(r, c) ==
    IF ew_M = NULL THEN ~ew_arg.Mask_comp
    ELSE (GB_has(ew_M, r, c)
          /\ GB_cast_factory("BOOL", ew_M.type, GB_value(ew_M, r, c)) = 1)
         # ew_arg.Mask_comp

\* T has been computed
Ew_T_computed == ew_pc \in {"T", "done"} /\ ew_T # NULL

\* T(r,c) is what set union gives at (r,c)
Ew_union_at(r, c) ==
    LET a_has == Ew_in_has(ew_A, ew_arg.A_transpose, r, c)
        b_has == Ew_in_has(ew_B, ew_arg.B_transpose, r, c)
        a == Ew_in_value(ew_A, ew_arg.A_transpose, r, c)
        b == Ew_in_value(ew_B, ew_arg.B_transpose, r, c)
    IN  /\ GB_has(ew_T, r, c) <=> (a_has \/ b_has)
        /\ (a_has /\ b_has) =>
              GB_value(ew_T, r, c)
                = GB_cast_binop(ew_T.type, ew_A.type, ew_B.type, ew_arg.op, a, b)
        /\ (a_has /\ ~b_has) =>
              GB_value(ew_T, r, c) = GB_cast_factory(ew_T.type, ew_A.type, a)
        /\ (~a_has /\ b_has) =>
              GB_value(ew_T, r, c) = GB_cast_factory(ew_T.type, ew_B.type, b)

\* C2 as stated: after eWiseAdd computes T, at every position (i,j) T(i,j) is
\* op (A(i,j), B(i,j)) where both have an entry, A(i,j) where only A has
\* one, B(i,j) where only B has one, and T has no entry where neither has
C2_UnionEverywhere ==
    (Ew_T_computed /\ ew_arg.eWiseAdd) =>
        \A pos \in Ew_Positions : Ew_union_at(pos[1], pos[2])

\* C2: after eWiseAdd computes T, T has the shape of C; at every position
\* (i,j) admitted by the mask handed to the set union (every position when
\* there is no mask) T(i,j) is op (A(i,j), B(i,j)) where both have an entry,
\* A(i,j) where only A has one, B(i,j) where only B has one, and absent where
\* neither has; at a position the mask rejects T has no entry
C2_UnionWhereAdmitted ==
    (Ew_T_computed /\ ew_arg.eWiseAdd) =>
        /\ GB_NROWS(ew_T) = GB_NROWS(ew_C) /\ GB_NCOLS(ew_T) = GB_NCOLS(ew_C)
        /\ \A pos \in Ew_Positions :
              IF Ew_admits(pos[1], pos[2])
              THEN Ew_union_at(pos[1], pos[2])
              ELSE ~GB_has(ew_T, pos[1], pos[2])

\* eWiseAdd with a mask computed T; the mask admitted a position where only A
\* has an entry and one where both have, and rejected one where A has an entry
C2_Witness ==
    /\ Ew_T_computed /\ ew_arg.eWiseAdd /\ ew_M # NULL
    /\ \E pos \in Ew_Positions :
          /\ Ew_admits(pos[1], pos[2])
          /\ Ew_in_has(ew_A, ew_arg.A_transpose, pos[1], pos[2])
          /\ ~Ew_in_has(ew_B, ew_arg.B_transpose, pos[1], pos[2])
          /\ GB_has(ew_T, pos[1], pos[2])
    /\ \E pos \in Ew_Positions :
          /\ Ew_admits(pos[1], pos[2])
          /\ Ew_in_has(ew_A, ew_arg.A_transpose, pos[1], pos[2])
          /\ Ew_in_has(ew_B, ew_arg.B_transpose, pos[1], pos[2])
    /\ \E pos \in Ew_Positions :
          /\ ~Ew_admits(pos[1], pos[2])
          /\ Ew_in_has(ew_A, ew_arg.A_transpose, pos[1], pos[2])
          /\ ~GB_has(ew_T, pos[1], pos[2])

\* C3: after eWiseMult computes T, T has the shape of C, T has an entry at
\* (i,j) if and only if both A and B have one, and its value is
\* op (A(i,j), B(i,j)) with A the left operand and B the right
C3_Intersection ==
    (Ew_T_computed /\ ~ew_arg.eWiseAdd) =>
        /\ GB_NROWS(ew_T) = GB_NROWS(ew_C) /\ GB_NCOLS(ew_T) = GB_NCOLS(ew_C)
        /\ \A pos \in Ew_Positions :
              LET a_has == Ew_in_has(ew_A, ew_arg.A_transpose, pos[1], pos[2])
                  b_has == Ew_in_has(ew_B, ew_arg.B_transpose, pos[1], pos[2])
              IN  /\ GB_has(ew_T, pos[1], pos[2]) <=> (a_has /\ b_has)
                  /\ (a_has /\ b_has) =>
                        GB_value(ew_T, pos[1], pos[2])
                          = GB_cast_binop(ew_T.type, ew_A.type, ew_B.type, ew_arg.op,
                                Ew_in_value(ew_A, ew_arg.A_transpose, pos[1], pos[2]),
                                Ew_in_value(ew_B, ew_arg.B_transpose, pos[1], pos[2]))

\* eWiseMult computed T with an entry a - b (mod 2^8, with a < b) from an A
\* stored in the orientation opposite to C's, where some position has an
\* entry of A only and another an entry of B only
C3_Witness ==
    /\ Ew_T_computed /\ ~ew_arg.eWiseAdd
    /\ ew_arg.op = Builtin("MINUS", "UINT8")
    /\ ew_A.is_csc # ew_C.is_csc
    /\ \E pos \in Ew_Positions :
          /\ GB_has(ew_T, pos[1], pos[2])
          /\ GB_value(ew_T, pos[1], pos[2]) > 128
    /\ \E pos \in Ew_Positions :
          /\ Ew_in_has(ew_A, ew_arg.A_transpose, pos[1], pos[2])
          /\ ~GB_has(ew_T, pos[1], pos[2])
    /\ \E pos \in Ew_Positions :
          /\ Ew_in_has(ew_B, ew_arg.B_transpose, pos[1], pos[2])
          /\ ~GB_has(ew_T, pos[1], pos[2])

\* the type checks of the call pass: accum, C and the operator's result fit;
\* A and B fit the operator's inputs; for eWiseAdd A and B fit C
Ew_types_fit ==
    LET arg == ew_arg
        C == arg.C_in
    IN  /\ arg.accum # NULL =>
              /\ ~Red_cannot_cast(C.type, arg.accum.ztype)
              /\ ~Red_cannot_cast(C.type, arg.accum.xtype)
              /\ ~Red_cannot_cast(arg.op.ztype, arg.accum.ytype)
        /\ ~Red_cannot_cast(C.type, arg.op.ztype)
        /\ ~Red_cannot_cast(arg.op.xtype, arg.A_in.type)
        /\ ~Red_cannot_cast(arg.op.ytype, arg.B_in.type)
        /\ arg.eWiseAdd =>
              /\ ~Red_cannot_cast(C.type, arg.A_in.type)
              /\ ~Red_cannot_cast(C.type, arg.B_in.type)

\* the shape <<rows, columns>> of X, or of X' if transpose is set
Ew_shape(X, transpose) ==
    IF transpose THEN <<GB_NCOLS(X), GB_NROWS(X)>> ELSE <<GB_NROWS(X), GB_NCOLS(X)>>

\* the shapes of A (or A'), B (or B') and C as the descriptor gives them
Ew_shapes_equal ==
    /\ Ew_shape(ew_arg.A_in, ew_arg.A_transpose) = Ew_shape(ew_arg.C_in, FALSE)
    /\ Ew_shape(ew_arg.B_in, ew_arg.B_transpose) = Ew_shape(ew_arg.C_in, FALSE)

\* the matrices of the call are as they were on entry and nothing has been
\* computed
Ew_untouched ==
    /\ ew_C = ew_arg.C_in /\ ew_M = ew_arg.M_in
    /\ ew_A = ew_arg.A_in /\ ew_B = ew_arg.B_in
    /\ ew_A_transpose = ew_arg.A_transpose /\ ew_B_transpose = ew_arg.B_transpose
    /\ ew_MT = NULL /\ ew_T = NULL

Ew_accumulated == ew_pc = "done" /\ ew_info = "GrB_SUCCESS" /\ ew_T # NULL

\* the entries of C on input: its zombies gone, its pending tuples merged
Ew_C_in == GB_MATRIX_WAIT(ew_arg.C_in)

\* C(r,c) on return is C(r,c) on input
Ew_kept(r, c) ==
    /\ GB_has(ew_C, r, c) <=> GB_has(Ew_C_in, r, c)
    /\ GB_has(ew_C, r, c) => GB_value(ew_C, r, c) = GB_value(Ew_C_in, r, c)

\* C(r,c) on return is T(r,c), typecast to C's type
Ew_written(r, c) ==
    /\ GB_has(ew_C, r, c) <=> GB_has(ew_T, r, c)
    /\ GB_has(ew_C, r, c) =>
          GB_value(ew_C, r, c)
            = GB_cast_factory(ew_C.type, ew_T.type, GB_value(ew_T, r, c))

\* C(r,c) on return is accum (C(r,c), T(r,c))
Ew_accum_at(r, c) ==
    /\ GB_has(ew_C, r, c)
    /\ GB_value(ew_C, r, c)
         = GB_cast_binop(ew_C.type, ew_C.type, ew_T.type, ew_arg.accum,
                         GB_value(Ew_C_in, r, c), GB_value(ew_T, r, c))

\* a rejected position keeps C's entry, or loses it when replace is set
Ew_rejected_at(r, c) ==
    IF ew_arg.C_replace THEN ~GB_has(ew_C, r, c) ELSE Ew_kept(r, c)

\* C4 as stated: after C<M> = accum (C,T), at an admitted position the result
\* is accum (C,T) if both C and T have a value and accum is given, and
\* otherwise T is written (the result has T's entry, or none where T has
\* none); at a rejected position C's entry is kept, or cleared under replace
C4_AccumMaskWritesT ==
    Ew_accumulated =>
        \A pos \in Ew_Positions :
            IF Ew_admits(pos[1], pos[2])
            THEN IF /\ GB_has(Ew_C_in, pos[1], pos[2])
                    /\ GB_has(ew_T, pos[1], pos[2])
                    /\ ew_arg.accum # NULL
                 THEN Ew_accum_at(pos[1], pos[2])
                 ELSE Ew_written(pos[1], pos[2])
            ELSE Ew_rejected_at(pos[1], pos[2])

\* C4: after C<M> = accum (C,T), at an admitted position the result is
\* accum (C,T) if both C and T have a value and accum is given; it is C's
\* entry, kept, if accum is given and only C has a value; otherwise it is
\* T's entry, or none where T has none.  At a rejected position C's entry is
\* kept, or cleared under replace
C4_AccumMask ==
    Ew_accumulated =>
        \A pos \in Ew_Positions :
            IF Ew_admits(pos[1], pos[2])
            THEN IF /\ GB_has(Ew_C_in, pos[1], pos[2])
                    /\ GB_has(ew_T, pos[1], pos[2])
                    /\ ew_arg.accum # NULL
                 THEN Ew_accum_at(pos[1], pos[2])
                 ELSE IF /\ ew_arg.accum # NULL
                         /\ ~GB_has(ew_T, pos[1], pos[2])
                 THEN Ew_kept(pos[1], pos[2])
                 ELSE Ew_written(pos[1], pos[2])
            ELSE Ew_rejected_at(pos[1], pos[2])

\* scenario S5 has returned C = [[1,2],[3,5]]: C(0,0) = 1 is kept where T has
\* no entry, C(1,1) = accum (1, 4), and C(0,1), C(1,0) are T's entries
C4_Witness ==
    /\ Ew_accumulated
    /\ ew_arg.accum = Builtin("PLUS", "UINT8") /\ ew_arg.op = Builtin("PLUS", "UINT8")
    /\ GB_entries(ew_arg.C_in) = (<<0, 0>> :> 1) @@ (<<1, 1>> :> 1)
    /\ GB_entries(ew_T) = (<<0, 1>> :> 2) @@ (<<1, 0>> :> 3) @@ (<<1, 1>> :> 4)
    /\ GB_entries(ew_C)
         = (<<0, 0>> :> 1) @@ (<<0, 1>> :> 2) @@ (<<1, 0>> :> 3) @@ (<<1, 1>> :> 5)

\* the temporaries of GB_eWise
Ew_temporaries == {"MT", "AT", "BT"}

\* C22: on every return of GB_eWise each temporary that was made (MT, AT,
\* BT) has been freed once and every pointer to one is NULL; at no time has
\* a temporary been freed more often than it was made, and none is made
\* twice.
C22_TemporariesReleased ==
    ew_pc # "idle" =>
        /\ \A t \in Ew_temporaries :
              ew_tmp.freed[t] <= ew_tmp.made[t] /\ ew_tmp.made[t] <= 1
        /\ ew_pc = "done" =>
              /\ \A t \in Ew_temporaries : ew_tmp.freed[t] = ew_tmp.made[t]
              /\ \A ptr \in Ew_pointers : ~ew_tmp.ptr[ptr]
        /\ ew_pc = "T" => (~ew_tmp.ptr["AT"] /\ ~ew_tmp.ptr["AT_189"] /\ ~ew_tmp.ptr["BT"])

\* GB_add or GB_emult failed for T = A'+B with a transposed mask: OutOfMemory
\* is returned, and MT and AT were each made once and freed once
C22_Witness ==
    /\ ew_pc = "done" /\ ew_info = "GrB_OUT_OF_MEMORY"
    /\ ew_A_transpose /\ ~ew_B_transpose
    /\ ew_tmp.made["MT"] = 1 /\ ew_tmp.freed["MT"] = 1
    /\ ew_tmp.made["AT"] = 1 /\ ew_tmp.freed["AT"] = 1

Ew_effective(X, X_transpose) == X_transpose # (X.is_csc # ew_C.is_csc)

Ew_mask_handed ==
    LET M_is_csc == IF ew_M = NULL THEN ew_C.is_csc ELSE ew_M.is_csc
    IN  IF ew_A_transpose /\ ew_B_transpose
        THEN GB_eWise_mask_TT(ew_C.is_csc, M_is_csc, ew_M, ew_MT)
        ELSE GB_eWise_mask(ew_C.is_csc, M_is_csc, ew_M, ew_MT)

\* C24: MT is made exactly when M is present and either M is not stored as C
\* is or both inputs are effectively transposed; and with eWiseAdd and a
\* mask, the mask handed to GB_add has the vectors of T: entry i of its
\* vector k is present exactly when M has an entry at the position of entry
\* i of vector k of T, with the same truth value.
C24_MaskLayout ==
    /\ ew_pc \in {"masked", "T"} =>
          /\ (ew_MT # NULL) <=>
                (/\ ew_M # NULL
                 /\ \/ ew_M.is_csc # ew_C.is_csc
                    \/ /\ Ew_effective(ew_A, ew_arg.A_transpose)
                       /\ Ew_effective(ew_B, ew_arg.B_transpose))
          /\ ew_tmp.made["MT"] = (IF ew_MT # NULL THEN 1 ELSE 0)
    /\ (ew_pc = "T" /\ ew_arg.eWiseAdd /\ ew_M # NULL) =>
          \A mask \in {Ew_mask_handed} :
              /\ mask # NULL
              /\ mask.vlen = ew_T.vlen /\ mask.vdim = ew_T.vdim
              /\ \A k \in 0..(ew_T.vdim - 1), i \in 0..(ew_T.vlen - 1) :
                    LET r == IF ew_T.is_csc THEN i ELSE k
                        c == IF ew_T.is_csc THEN k ELSE i
                        p == GB_find(mask, i, k)
                    IN  /\ (p # 0) <=> GB_has(ew_M, r, c)
                        /\ (p # 0) =>
                              GB_cast_factory("BOOL", mask.type, mask.x[p])
                                = GB_cast_factory("BOOL", ew_M.type, GB_value(ew_M, r, c))

\* T = A'+B' has been computed by GB_add with the mask MT, the transpose of
\* an M stored as C is, with M(0,1) present and M(1,0) absent
C24_Witness ==
    /\ ew_pc = "T" /\ ew_arg.eWiseAdd /\ ew_M # NULL
    /\ ew_M.is_csc = ew_C.is_csc
    /\ ew_A_transpose /\ ew_B_transpose
    /\ Ew_mask_handed = ew_MT /\ ew_MT # NULL
    /\ GB_has(ew_M, 0, 1) /\ ~GB_has(ew_M, 1, 0)
    /\ GB_NNZ(ew_T) > 0

\* GB_eWise was called with no mask and Mask_comp set
Ew_quick == ew_arg.M_in = NULL /\ ew_arg.Mask_comp

\* C25: called with no mask and Mask_comp set, GB_eWise returns the status
\* of its type and dimension checks; when they pass it returns Success with
\* no T and no temporary made, M, A and B as they were (pending tuples and
\* zombies included) and the transpose flags not conformed; C is as it was
\* if C_replace is not set and has no entry, no zombie and no pending tuple
\* if it is set.
C25_QuickMask ==
    (ew_pc = "done" /\ Ew_quick) =>
        /\ ew_info = GB_eWise_check(ew_arg, ew_arg.C_in, ew_arg.M_in,
                                    ew_arg.A_in, ew_arg.B_in)
        /\ ew_T = NULL /\ ew_MT = NULL /\ ew_tmp = Ew_tmp_none
        /\ ew_M = NULL /\ ew_A = ew_arg.A_in /\ ew_B = ew_arg.B_in
        /\ ew_A_transpose = ew_arg.A_transpose
        /\ ew_B_transpose = ew_arg.B_transpose
        /\ (ew_info # "GrB_SUCCESS" \/ ~ew_arg.C_replace) => ew_C = ew_arg.C_in
        /\ (ew_info = "GrB_SUCCESS" /\ ew_arg.C_replace) =>
              /\ GB_NNZ(ew_C) = 0 /\ ~GB_PENDING_OR_ZOMBIES(ew_C)
              /\ DOMAIN GB_entries(ew_C) = {}
              /\ ew_C.type = ew_arg.C_in.type /\ ew_C.is_csc = ew_arg.C_in.is_csc
              /\ ew_C.vlen = ew_arg.C_in.vlen /\ ew_C.vdim = ew_arg.C_in.vdim

\* the quick return with C_replace set has cleared a C that had a zombie and
\* a pending tuple, and has left the pending tuples of A and B alone
C25_Witness ==
    /\ ew_pc = "done" /\ Ew_quick /\ ew_info = "GrB_SUCCESS"
    /\ ew_arg.C_replace
    /\ ew_arg.C_in.nzombies = 1 /\ Len(ew_arg.C_in.Pending) = 1
    /\ GB_NNZ(ew_C) = 0 /\ ~GB_PENDING_OR_ZOMBIES(ew_C)
    /\ Len(ew_A.Pending) = 1 /\ Len(ew_B.Pending) = 1

(***************************************************************************)
(* Properties of the calls on matrices stored by row and by column         *)
(***************************************************************************)

\* the transpose flags have been conformed to the orientation of C
Ew_conformed == ew_pc \in {"waited", "masked", "T"} \/ Ew_accumulated

\* C11: the C that GB_eWise returns is the C it returns for the same call
\* with A, with B, with both or with the mask stored in the other
\* orientation; the transpose flag GB_eWise works with is the descriptor's
\* flag flipped exactly when the input's orientation is not C's; and the c
\* that GB_reduce_to_scalar returns is the c it returns for A stored in the
\* other orientation.
C11_OrientationEquivalence ==
    /\ Ew_accumulated =>
          \A A \in {Ew_reorient(ew_A)}, B \in {Ew_reorient(ew_B)},
             M \in {IF ew_M = NULL THEN NULL ELSE Ew_reorient(ew_M)} :
              LET R(M2, A2, B2) ==
                      GB_entries(GB_eWise_result(ew_arg, ew_arg.C_in, M2, A2, B2))
              IN  /\ GB_entries(ew_C) = R(ew_M, A, ew_B)
                  /\ GB_entries(ew_C) = R(ew_M, ew_A, B)
                  /\ GB_entries(ew_C) = R(ew_M, A, B)
                  /\ GB_entries(ew_C) = R(M, ew_A, ew_B)
    /\ Ew_conformed =>
          /\ ew_A_transpose = (ew_arg.A_transpose # (ew_A.is_csc # ew_C.is_csc))
          /\ ew_B_transpose = (ew_arg.B_transpose # (ew_B.is_csc # ew_C.is_csc))
    /\ Red_Returned("GrB_SUCCESS") =>
          \A A \in {Ew_reorient(GB_MATRIX_WAIT(red_arg.A_in))} :
              red_c = Red_Result(red_arg, A).c

\* eWiseAdd returned a C with entries, for an A stored in the orientation
\* opposite to C's with A(0,1) # A(1,0), a B stored in C's orientation and a
\* mask stored in the orientation opposite to C's
C11_Witness ==
    /\ Ew_accumulated /\ ew_arg.eWiseAdd
    /\ ew_A.is_csc # ew_C.is_csc /\ ew_B.is_csc = ew_C.is_csc
    /\ ew_M # NULL /\ ew_M.is_csc # ew_C.is_csc
    /\ GB_has(ew_A, 0, 1) /\ GB_has(ew_A, 1, 0)
    /\ GB_value(ew_A, 0, 1) # GB_value(ew_A, 1, 0)
    /\ GB_has(ew_C, 0, 1) /\ GB_has(ew_T, 0, 1)

\* C19: while T is being computed and after, M, A and B have neither
\* pending tuples nor zombies, and until GB_accum_mask runs C is as it was on
\* entry; in GB_reduce_to_scalar A has none once anz is read and the tasks
\* are planned, and anz is the number of entries of the finalised A.  Until
\* the checks have passed, and on a mismatch return, the inputs are as they
\* were on entry.
C19_FinalisedBeforeCompute ==
    /\ ew_pc \in {"waited", "masked", "T"} \/ Ew_accumulated =>
          /\ ew_M # NULL => ~GB_PENDING_OR_ZOMBIES(ew_M)
          /\ ~GB_PENDING_OR_ZOMBIES(ew_A)
          /\ ~GB_PENDING_OR_ZOMBIES(ew_B)
    /\ ew_pc \in {"start", "checked", "waited", "masked", "T"} => ew_C = ew_arg.C_in
    /\ (ew_pc \in {"start", "checked"}
        \/ ew_info \in {"GrB_DOMAIN_MISMATCH", "GrB_DIMENSION_MISMATCH"}) =>
          /\ ew_M = ew_arg.M_in /\ ew_A = ew_arg.A_in /\ ew_B = ew_arg.B_in
    /\ (red_pc # "idle" /\ red_plan # NULL) =>
          /\ ~GB_PENDING_OR_ZOMBIES(red_A)
          /\ red_plan.anz = Len(red_A.x)
          /\ red_A = GB_MATRIX_WAIT(red_arg.A_in)
    /\ (red_pc \in {"check", "wait"} \/ red_info = "GrB_DOMAIN_MISMATCH") =>
          red_A = red_arg.A_in

\* T has been computed from an M, an A and a B that all came with pending
\* tuples (A with a zombie too) and are now finalised, while C still has its
\* zombie and its pending tuple
C19_Witness ==
    /\ ew_pc = "T" /\ ew_T # NULL
    /\ ew_C.nzombies = 1 /\ Len(ew_C.Pending) = 1
    /\ ew_arg.M_in # NULL /\ Len(ew_arg.M_in.Pending) = 1
    /\ ew_arg.A_in.nzombies = 1 /\ Len(ew_arg.A_in.Pending) = 1
    /\ Len(ew_arg.B_in.Pending) = 1
    /\ ~GB_PENDING_OR_ZOMBIES(ew_M)
    /\ ~GB_PENDING_OR_ZOMBIES(ew_A)
    /\ ~GB_PENDING_OR_ZOMBIES(ew_B)

(***************************************************************************)
(* Properties of the unary apply kernels                                   *)
(***************************************************************************)

\* the positions 0..anz-1
Ap_P == 0..(ap_in.anz - 1)

\* C16: when a kernel has run, Cx [p] = op (cast (Ax [p])) of the Ax on
\* entry for every p in 0..anz-1, the position past anz-1 is as it was, and
\* Ax is as it was unless it is Cx; this holds with Cx the same array as Ax,
\* for every nthreads, every static schedule and every interleaving: each
\* position is read once, it is written once and after it is read, and no
\* read finds a position already written.  A disabled kernel touches
\* nothing.
C16_ApplyAliased ==
    /\ (ap_pc = "done" /\ ap_info # "GrB_NO_VALUE") =>
          /\ \A p \in Ap_P : ap_Cx[p + 1] = GB_CAST_OP(ap_in.kernel, ap_in.Ax[p + 1])
          /\ ap_Cx[ap_in.anz + 1] = ap_in.Cx[ap_in.anz + 1]
          /\ Len(ap_Cx) = ap_in.anz + 1
          /\ ap_in.alias => ap_Ax = ap_Cx
          /\ ~ap_in.alias => ap_Ax = ap_in.Ax
          /\ \A p \in Ap_P : ap_trace.reads[p] = 1 /\ ap_trace.writes[p] = 1
    /\ ap_info = "GrB_NO_VALUE" => (ap_Cx = ap_in.Cx /\ ap_Ax = ap_in.Ax)
    /\ ap_pc \in {"run", "done"} /\ ap_trace # NULL =>
          /\ ap_trace.stale = {} /\ ap_trace.early = {}
          /\ \A p \in Ap_P :
                /\ ap_trace.reads[p] <= 1
                /\ ap_trace.writes[p] <= ap_trace.reads[p]

\* the kernel has run in place (Cx is Ax) on three entries with two threads
\* that both had work, and an entry 0 became UINT32_MAX
C16_Witness ==
    /\ ap_pc = "done" /\ ap_info = "GrB_SUCCESS"
    /\ ap_in.alias /\ ap_in.anz = MaxApplyNnz /\ ap_in.nthreads >= 2
    /\ ap_in.start[1] \in 1..(ap_in.anz - 1)
    /\ \E p \in Ap_P : ap_in.Ax[p + 1] = GB_uint32(0, 0) /\ ap_Ax[p + 1] = UINT32_MAX

(***************************************************************************)
(* Properties of the triu selector                                         *)
(***************************************************************************)

\* C as phase 2 has written it
Sel_C ==
    Matrix(sel_in.A.type, sel_in.A.vlen, sel_in.A.vdim, sel_in.A.is_csc,
           [k \in 1..(sel_in.A.vdim + 1) |-> sel_Cp[k - 1]], sel_Ci, sel_Cx)

\* the entries of vector k of A that are kept, in their order in A
Sel_kept(k) ==
    LET Test(e) == k - e[1] >= sel_in.ithunk
    IN  SelectSeq(GB_vector(sel_in.A, k), Test)

\* the upper triangle of scenario S6, diagonal included
Sel_S6 ==
    (<<0, 0>> :> 1) @@ (<<0, 1>> :> 2) @@ (<<0, 2>> :> 3) @@ (<<1, 1>> :> 5)
    @@ (<<1, 2>> :> 6) @@ (<<2, 2>> :> 9)

\* C17: C has exactly the entries A(i,j) with j - i >= thunk, with the
\* values they have in A and in the order they have in their vector of A;
\* phase 1 counts the kept entries of each vector and phase 2 writes that
\* many entries of it; thunk = 0 on the full 3-by-3 matrix of 1..9 gives the
\* upper triangle with the diagonal.
C17_TriuSelect ==
    /\ sel_pc = "done" =>
          /\ GB_entries(Sel_C) =
                [pos \in {pos \in DOMAIN GB_entries(sel_in.A) :
                            pos[2] - pos[1] >= sel_in.ithunk}
                    |-> GB_entries(sel_in.A)[pos]]
          /\ \A k \in 0..(sel_in.A.vdim - 1) : GB_vector(Sel_C, k) = Sel_kept(k)
          /\ (/\ Sel_N = 3 /\ sel_in.ithunk = 0
              /\ DOMAIN GB_entries(sel_in.A) = (0..2) \X (0..2)) =>
                 GB_entries(Sel_C) = Sel_S6
    /\ sel_pc = "phase1" =>
          \A k \in sel_vecs.counted : sel_Cp[k] = Len(Sel_kept(k))
    /\ sel_pc \in {"phase2", "done"} =>
          /\ \A k \in 0..(sel_in.A.vdim - 1) :
                sel_Cp[k + 1] - sel_Cp[k] = Len(Sel_kept(k))
          /\ \A k \in sel_vecs.written :
                sel_vecs.cjnz[k] = sel_Cp[k + 1] - sel_Cp[k]
          /\ \A k \in (0..(sel_in.A.vdim - 1)) \ sel_vecs.written :
                \A q \in (sel_Cp[k] + 1)..sel_Cp[k + 1] : sel_Ci[q] = -1

\* scenario S6: the full matrix with thunk = 0 has been selected and C has
\* six entries, three of them in the last vector
C17_Witness ==
    /\ sel_pc = "done" /\ sel_in.ithunk = 0
    /\ GB_NNZ(sel_in.A) = Sel_N * Sel_N
    /\ GB_NNZ(Sel_C) = (Sel_N * (Sel_N + 1)) \div 2
    /\ sel_vecs.cjnz[Sel_N - 1] = Sel_N
    /\ GB_value(Sel_C, 0, Sel_N - 1) = Sel_N

(***************************************************************************)
(* Properties of GB_AxB_dot2_compmask                                      *)
(***************************************************************************)

\* the positions of vector k of C
Dot_range(k) == At(dot_Cp, k)..(At(dot_Cp, k + 1) - 1)

\* the rows i for which C(i,j) is computed: B(:,j) is not empty, the mask
\* does not hold at (i,j) and the dot product has a value
Dot_rows(j) ==
    {i \in 0..(Dot_anvec - 1) :
        /\ ~GB_dot2_mij(dot_in.M, i, j)
        /\ GB_dot_cij_exists(dot_in.A, dot_in.B, i, j)}

\* C9: in the complemented-mask dot-product kernel, at every moment of phase
\* 2 and under every schedule of the tasks, the indices written so far to
\* each vector C(:,j) increase strictly with their position; when the kernel
\* is done every position of every vector has been written, so the entries
\* of C(:,j) are stored in increasing i across all slices of A
C9_IndicesIncrease ==
    /\ dot_phase \in {"phase2", "done"} =>
          \A k \in 0..(Dot_bnvec - 1) :
              \A p \in Dot_range(k) \cap DOMAIN dot_Ci :
                  \A q \in Dot_range(k) \cap DOMAIN dot_Ci :
                      p < q => dot_Ci[p] < dot_Ci[q]
    /\ dot_phase = "done" =>
          /\ DOMAIN dot_Ci = 0..(At(dot_Cp, Dot_bnvec) - 1)
          /\ \A k \in 0..(Dot_bnvec - 1) :
                {dot_Ci[p] : p \in Dot_range(k)} = Dot_rows(k)

\* the kernel is done with two slices of A and two of B; some vector of C
\* holds entries from both slices of A, and the mask held at some position
\* where the dot product has a value
C9_Witness ==
    /\ dot_phase = "done"
    /\ dot_in.naslice = 2 /\ dot_in.nbslice = 2 /\ dot_in.nthreads = MaxDotThreads
    /\ \E k \in 0..(Dot_bnvec - 1) :
          /\ \E p \in Dot_range(k) : dot_Ci[p] < At(dot_in.A_slice, 1)
          /\ \E p \in Dot_range(k) : dot_Ci[p] >= At(dot_in.A_slice, 1)
    /\ \E i \in 0..(Dot_anvec - 1), j \in 0..(Dot_bnvec - 1) :
          /\ GB_dot2_mij(dot_in.M, i, j)
          /\ GB_dot_cij_exists(dot_in.A, dot_in.B, i, j)

\* M(i,j) is present and its value casts to true
Dot_M_true(i, j) == <<i, j>> \in DOMAIN dot_in.M /\ dot_in.M[<<i, j>>] # 0

\* the vectors A(:,i) of the slice of A that holds A(:,i)
Dot_slice_of(i) ==
    {i2 \in 0..(Dot_anvec - 1) :
        \E a \in 0..(dot_in.naslice - 1) :
            /\ At(dot_in.A_slice, a) <= i /\ i < At(dot_in.A_slice, a + 1)
            /\ At(dot_in.A_slice, a) <= i2 /\ i2 < At(dot_in.A_slice, a + 1)}

\* no entry of C where M(i,j) is present and true, nor in a vector j with
\* B(:,j) empty
Dot_no_output_under_mask ==
    /\ dot_phase \in {"phase2", "done"} =>
          \A k \in 0..(Dot_bnvec - 1) : \A p \in Dot_range(k) \cap DOMAIN dot_Ci :
              ~Dot_M_true(dot_Ci[p], k) /\ dot_in.B[k] # {}
    /\ dot_phase = "done" =>
          \A k \in 0..(Dot_bnvec - 1) : dot_in.B[k] = {} => Dot_range(k) = {}

\* the parallel loop of the phase has ended
Dot_phase_ended(ph) ==
    \/ ph = "phase1" /\ dot_phase = "phase1"
          /\ \A t \in Dot_tasks : dot_task[t].pc = "finished"
    \/ ph = "phase2" /\ dot_phase = "done"

\* C29 as stated: in each phase, for every j with B(:,j) not empty and every
\* A(:,i), the dot product is attempted if and only if M(i,j) is absent or
\* false
C29_AttemptedIff ==
    /\ \A ph \in {"phase1", "phase2"} :
          Dot_phase_ended(ph) =>
             \A j \in 0..(Dot_bnvec - 1), i \in 0..(Dot_anvec - 1) :
                 dot_in.B[j] # {} => (<<i, j>> \in dot_log.dots <=> ~Dot_M_true(i, j))
    /\ Dot_no_output_under_mask

\* C29: in the dot product kernel with a complemented mask, a dot product is
\* attempted only for a j with B(:,j) not empty and an i with M(i,j) absent
\* or present and false. Phase 1 attempts every such dot product. Phase 2
\* attempts it exactly when the task's range of C(:,j) is not empty, that is
\* when some A(:,i2) of the same slice of A has an entry in C(:,j); with an
\* empty range the task goes on to the next vector and attempts none. No
\* entry of C is written where M(i,j) is present and true, nor in a vector j
\* with B(:,j) empty.
C29_ComplementedMask ==
    /\ dot_in # NULL =>
          \A d \in dot_log.dots : dot_in.B[d[2]] # {} /\ ~Dot_M_true(d[1], d[2])
    /\ Dot_phase_ended("phase1") =>
          \A j \in 0..(Dot_bnvec - 1), i \in 0..(Dot_anvec - 1) :
              (dot_in.B[j] # {} /\ ~Dot_M_true(i, j)) => <<i, j>> \in dot_log.dots
    /\ Dot_phase_ended("phase2") =>
          \A j \in 0..(Dot_bnvec - 1), i \in 0..(Dot_anvec - 1) :
              (dot_in.B[j] # {} /\ ~Dot_M_true(i, j)) =>
                 (<<i, j>> \in dot_log.dots <=>
                     \E i2 \in Dot_slice_of(i) :
                         /\ ~Dot_M_true(i2, j)
                         /\ GB_dot_cij_exists(dot_in.A, dot_in.B, i2, j))
    /\ Dot_no_output_under_mask

\* the kernel is done; some dot product with M(i,j) absent or false, which
\* has no value, was not attempted in phase 2, some C(i,j) with M(i,j)
\* present and false was written, and some dot product that has a value was
\* left out because M(i,j) is true
C29_Witness ==
    /\ dot_phase = "done"
    /\ \E i \in 0..(Dot_anvec - 1), j \in 0..(Dot_bnvec - 1) :
          /\ dot_in.B[j] # {} /\ ~Dot_M_true(i, j)
          /\ <<i, j>> \notin dot_log.dots
    /\ \E i \in 0..(Dot_anvec - 1), j \in 0..(Dot_bnvec - 1) :
          /\ <<i, j>> \in DOMAIN dot_in.M /\ ~Dot_M_true(i, j)
          /\ <<i, j>> \in dot_log.dots
          /\ \E p \in Dot_range(j) : dot_Ci[p] = i
    /\ \E i \in 0..(Dot_anvec - 1), j \in 0..(Dot_bnvec - 1) :
          /\ Dot_M_true(i, j) /\ GB_dot_cij_exists(dot_in.A, dot_in.B, i, j)
          /\ \A p \in Dot_range(j) : dot_Ci[p] # i

\* the positions cnz..cnz_last of C(:,k) that the tasks of slice a_taskid of
\* A compute in phase 2
Dot_owned(a_taskid, k) ==
    GB_dot2_cnz(dot_Cp, GB_C_count_start(dot_C_counts, a_taskid), k)
      .. GB_dot2_cnz_last(dot_Cp, GB_C_count_end(dot_C_counts, a_taskid, dot_in.naslice), k)

\* C30: in phase 2, for every vector k of C the ranges cnz..cnz_last of the
\* slices of A are pairwise disjoint and together are Cp[k]..Cp[k+1]-1; a
\* task (a_taskid, b_taskid) writes only positions of its own range, in the
\* vectors of its slice of B, so a task whose range is empty writes nothing;
\* no position of Ci is written twice; and when the kernel is done every
\* position of C has been written once.
C30_RangesPartition ==
    dot_phase \in {"phase2", "done"} =>
      \A owned \in {[a \in 0..(dot_in.naslice - 1), k \in 0..(Dot_bnvec - 1) |->
                       Dot_owned(a, k)]} :
        /\ \A k \in 0..(Dot_bnvec - 1) :
              /\ \A a1 \in 0..(dot_in.naslice - 1), a2 \in 0..(dot_in.naslice - 1) :
                    a1 # a2 => owned[a1, k] \cap owned[a2, k] = {}
              /\ UNION {owned[a, k] : a \in 0..(dot_in.naslice - 1)} = Dot_range(k)
        /\ \A w \in dot_log.writes :
              /\ w[4] \in owned[w[1][1], w[2]]
              /\ At(dot_in.B_slice, w[1][2]) <= w[2]
              /\ w[2] < At(dot_in.B_slice, w[1][2] + 1)
        /\ Cardinality({w[4] : w \in dot_log.writes}) = Cardinality(dot_log.writes)
        /\ dot_phase = "done" =>
              {w[4] : w \in dot_log.writes} = 0..(At(dot_Cp, Dot_bnvec) - 1)

\* the kernel is done with two slices of A and two threads: in some vector of
\* C both slices have written to ranges that are not empty, and for some
\* vector with B(:,k) not empty the range of one slice is empty
C30_Witness ==
    /\ dot_phase = "done"
    /\ dot_in.naslice = 2 /\ dot_in.nthreads = MaxDotThreads
    /\ \E k \in 0..(Dot_bnvec - 1) :
          /\ \E w \in dot_log.writes : w[2] = k /\ w[1][1] = 0
          /\ \E w \in dot_log.writes : w[2] = k /\ w[1][1] = 1
    /\ \E k \in 0..(Dot_bnvec - 1), a \in 0..1 :
          /\ dot_in.B[k] # {} /\ Dot_owned(a, k) = {}
          /\ At(dot_in.A_slice, a) < At(dot_in.A_slice, a + 1)

(***************************************************************************)
(* Properties of the Gustavson kernels                                     *)
(***************************************************************************)

\* the mask has every position present and true
Gus_mask_all_ones ==
    \A r \in 0..(Gus_N - 1), c \in 0..(Gus_N - 1) :
        GB_has(gus_mask.M, r, c) /\ GB_value(gus_mask.M, r, c) = 1

\* the number of products A(i,k) * B(k,j) that make up C(i,j)
Gus_products(i, j) ==
    Cardinality({k \in 0..(Gus_N - 1) : GB_has(gus_in.A, i, k) /\ GB_has(gus_in.B, k, j)})

\* C10: when the mask has every position present and true, each vector of
\* T = A*B computed by the masked kernel (the first product initialises the
\* slot, later ones are added) holds the same indices and values as the one
\* computed by the unmasked kernel (the slot starts at the identity, every
\* product is added), and the two multiplies return the same C
C10_MaskAllOnesIsNoMask ==
    (gus_in # NULL /\ Gus_mask_all_ones) =>
        /\ \A k \in 0..(Gus_N - 1) :
              (k < gus_mask.j /\ k < gus_nomask.j)
                 => gus_mask.vecs[k] = gus_nomask.vecs[k]
        /\ (gus_mask.C # NULL /\ gus_nomask.C # NULL) => gus_mask.C = gus_nomask.C

\* both multiplies returned under a mask of all ones, from a Sauna whose
\* slots held stale values; some C(i,j) is made of two products and some of
\* one, and some position of C has no product
C10_Witness ==
    /\ gus_in # NULL /\ Gus_mask_all_ones
    /\ gus_mask.C # NULL /\ gus_nomask.C # NULL
    /\ gus_in.semiring = GB_AxB__min_rdiv_int8
    /\ \E i \in 0..(Gus_N - 1) : gus_nomask.Sauna_Work[i] # gus_in.semiring.identity
    /\ \E i \in 0..(Gus_N - 1), j \in 0..(Gus_N - 1) :
          /\ Gus_products(i, j) = 2
          /\ GB_has(Gus_T(gus_mask.vecs), i, j)
    /\ \E i \in 0..(Gus_N - 1), j \in 0..(Gus_N - 1) : Gus_products(i, j) = 1
    /\ \E i \in 0..(Gus_N - 1), j \in 0..(Gus_N - 1) :
          /\ Gus_products(i, j) = 0
          /\ ~GB_has(Gus_T(gus_mask.vecs), i, j)

\* the indices k with A(i,k) and B(k,j) present, in increasing order
Gus_ks(i, j) ==
    GB_ascending({k \in 0..(Gus_N - 1) : GB_has(gus_in.A, i, k) /\ GB_has(gus_in.B, k, j)})

RECURSIVE Gus_sum(_, _, _)
\* the sum, by the monoid, of the products mult (A(i,k), B(k,j)) for k in ks
Gus_sum(ks, i, j) ==
    LET n == Len(ks)
        t == GB_MULT(gus_in.semiring, GB_value(gus_in.A, i, ks[n]),
                     GB_value(gus_in.B, ks[n], j))
    IN  IF n = 1 THEN t
        ELSE GB_ADD(gus_in.semiring, Gus_sum(SubSeq(ks, 1, n - 1), i, j), t)

\* M(i,j) admits the position: it is present and true
Gus_admits(i, j) == GB_has(gus_mask.M, i, j) /\ GB_value(gus_mask.M, i, j) = 1

\* the next vector of the multiply with a mask, from the Sauna as it is
Gus_next_vector ==
    GB_gus_vector_mask(gus_in.semiring, gus_mask.Sauna, gus_mask.M,
                       gus_in.A, gus_in.B, gus_mask.j)

\* C26: in the Gustavson kernel with a mask, for vector j and each product
\* A(i,k)*B(k,j) in turn: if M(i,j) does not admit the position neither
\* W[i] nor mark[i] is written; otherwise, if mark[i] < hiwater+1 the slot
\* becomes mul(a,b) and is marked hiwater+1, else it becomes
\* add(W[i], mul(a,b)); no other slot changes. The slots gathered into
\* C(:,j) are those whose mark is hiwater+1, so C(i,j) is present exactly
\* where M(i,j) admits and some product exists, and is their sum.
C26_MaskedMultAdd ==
    gus_in # NULL =>
      /\ gus_mask.j < Gus_N =>
           \A r \in {Gus_next_vector} :
             LET j == gus_mask.j
                 prods == GB_gus_products(gus_in.A, GB_vector(gus_in.B, j))
                 W(n) == GB_gus_saxpy_mask(gus_in.semiring, r.scattered, r.hiwater,
                                           SubSeq(prods, 1, n))
             IN  /\ \A n \in 0..(Len(prods) - 1) :
                       \A S \in {W(n)}, S2 \in {W(n + 1)} :
                         LET i == prods[n + 1][1]
                             t == GB_MULT(gus_in.semiring, prods[n + 1][2], prods[n + 1][3])
                         IN  /\ \A q \in (0..(Gus_N - 1)) \ {i} :
                                   S2.Work[q] = S.Work[q] /\ S2.Mark[q] = S.Mark[q]
                             /\ IF ~Gus_admits(i, j)
                                THEN S2.Work[i] = S.Work[i] /\ S2.Mark[i] = S.Mark[i]
                                ELSE IF S.Mark[i] < r.hiwater + 1
                                THEN S2.Work[i] = t /\ S2.Mark[i] = r.hiwater + 1
                                ELSE /\ S2.Work[i] = GB_ADD(gus_in.semiring, S.Work[i], t)
                                     /\ S2.Mark[i] = S.Mark[i]
                 /\ W(Len(prods)) = r.Sauna
                 /\ {r.vec[q][1] : q \in 1..Len(r.vec)}
                       = {i \in 0..(Gus_N - 1) : r.Sauna.Mark[i] = r.hiwater + 1}
                 /\ \A q \in 1..Len(r.vec) : r.vec[q][2] = r.Sauna.Work[r.vec[q][1]]
      /\ \A j \in 0..(Gus_N - 1) : j < gus_mask.j =>
           /\ {gus_mask.vecs[j][q][1] : q \in 1..Len(gus_mask.vecs[j])}
                 = {i \in 0..(Gus_N - 1) : Gus_admits(i, j) /\ Gus_ks(i, j) # << >>}
           /\ \A q \in 1..Len(gus_mask.vecs[j]) :
                 gus_mask.vecs[j][q][2] = Gus_sum(Gus_ks(gus_mask.vecs[j][q][1], j),
                                                  gus_mask.vecs[j][q][1], j)

\* the vectors of C<M> = A*B are computed, from a Sauna with marks left by
\* earlier use, under the mask with M(0,0) false, M(1,0) absent and M(0,1),
\* M(1,1) true: products of C(0,0) and of C(1,0) were skipped, C(1,1), made
\* of one product, was initialised only, and C(0,1) was initialised and then
\* added to
C26_Witness ==
    /\ gus_in # NULL /\ gus_mask.j = Gus_N /\ gus_mask.run = 1
    /\ gus_mask.M = Gus_partial
    /\ gus_mask.Sauna.hiwater > 2 * Gus_N
    /\ Gus_products(0, 0) >= 1 /\ ~GB_has(Gus_T(gus_mask.vecs), 0, 0)
    /\ Gus_products(1, 0) >= 1 /\ ~GB_has(Gus_T(gus_mask.vecs), 1, 0)
    /\ Gus_products(1, 1) = 1 /\ GB_has(Gus_T(gus_mask.vecs), 1, 1)
    /\ Gus_products(0, 1) = 2 /\ GB_has(Gus_T(gus_mask.vecs), 0, 1)

\* what holds of the Sauna between the vectors
Gus_Sauna_discipline ==
    gus_in # NULL =>
      /\ \A i \in 0..(Gus_N - 1) : gus_mask.Sauna.Mark[i] < gus_mask.Sauna.hiwater + 2
      /\ gus_mask.j < Gus_N =>
           \A r \in {Gus_next_vector} :
              /\ r.hiwater = gus_mask.Sauna.hiwater + 2
              /\ \A i \in 0..(Gus_N - 1) :
                    /\ gus_mask.Sauna.Mark[i] < r.hiwater
                    /\ r.scattered.Mark[i] < r.hiwater + 1
                    /\ (r.scattered.Mark[i] = r.hiwater) <=> Gus_admits(i, gus_mask.j)
                    /\ (r.Sauna.Mark[i] = r.hiwater + 1) <=>
                          (Gus_admits(i, gus_mask.j) /\ Gus_ks(i, gus_mask.j) # << >>)
      /\ \A j \in 0..(Gus_N - 1), i \in 0..(Gus_N - 1) :
           (j < gus_mask.j /\ GB_has(Gus_T(gus_mask.vecs), i, j)) =>
              /\ Gus_admits(i, j) /\ Gus_ks(i, j) # << >>
              /\ GB_value(Gus_T(gus_mask.vecs), i, j) = Gus_sum(Gus_ks(i, j), i, j)

\* C27: over the vectors of one multiply and over the multiplies that use
\* the same Sauna with its marks never reset: when a vector starts, every
\* mark is strictly below hiwater, the value that means 'admitted' for it,
\* and so below hiwater+1, the value that means 'seen'; after the scatter of
\* M(:,j) the slots at hiwater are those M(:,j) admits; the slots gathered
\* are those admitted with a product of this vector, with the sum of these
\* products only; and hiwater never decreases.
C27_SaunaReuse ==
    /\ []Gus_Sauna_discipline
    /\ [][gus_in # NULL => gus_mask'.Sauna.hiwater >= gus_mask.Sauna.hiwater]_vars

\* a second multiply uses the Sauna the first one left, under the mask with
\* M(0,0) false and M(1,0) absent, and has computed its vector 0: every slot
\* still has the mark hiwater+1 of the last vector of the first multiply,
\* which is now hiwater-1, and C(0,0) and C(1,0), which have products, are
\* absent
C27_Witness ==
    /\ gus_in # NULL /\ gus_mask.run = 2 /\ gus_mask.j = 1
    /\ gus_mask.M = Gus_partial
    /\ \A i \in 0..(Gus_N - 1) : gus_mask.Sauna.Mark[i] = gus_mask.Sauna.hiwater - 1
    /\ Gus_products(0, 0) >= 1 /\ Gus_products(1, 0) >= 1
    /\ gus_mask.vecs[0] = << >>

\* z = mult (y,x) of the semiring: y / x for rdiv, y - x for rminus
Gus_rmult(semiring, x, y) ==
    GB_cast_factory(semiring.ztype, semiring.ztype,
        IF semiring.name = "min_rdiv_int8" THEN GB_IDIV_SIGNED(y, x, 8) ELSE y - x)

\* C28: for min_rdiv_int8 and for max_rminus_uint8, the vectors of C = A*B
\* computed by the Gustavson kernel, by the dot product kernel (handed A')
\* and by the heap kernel, whatever the order of its heap, hold the same
\* indices and values; the multiply of all three is z = mult (y,x) with
\* x = A(i,k) and y = B(k,j), the add and the identity are the monoid's,
\* and the dot product kernel leaving its loop at the terminal value
\* changes no value.
C28_KernelsAgree ==
    gus_in # NULL =>
      /\ \A k \in 0..(Gus_N - 1) :
            /\ (k < gus_nomask.j /\ k < gus_dot.j) => gus_nomask.vecs[k] = gus_dot.vecs[k]
            /\ (k < gus_nomask.j /\ k < gus_heap.j) => gus_nomask.vecs[k] = gus_heap.vecs[k]
            /\ (k < gus_dot.j /\ k < gus_heap.j) => gus_dot.vecs[k] = gus_heap.vecs[k]
      /\ \A a \in {Gus_A_value(gus_in.semiring)[pos] :
                      pos \in DOMAIN Gus_A_value(gus_in.semiring)},
            b \in {Gus_B_value(gus_in.semiring)[pos] :
                      pos \in DOMAIN Gus_B_value(gus_in.semiring)} :
            /\ GB_MULT(gus_in.semiring, a, b) = Gus_rmult(gus_in.semiring, a, b)
            /\ GB_DOT_MULT(gus_in.semiring, a, b) = Gus_rmult(gus_in.semiring, a, b)
            /\ GB_CIJ_MULT(gus_in.semiring, a, b) = Gus_rmult(gus_in.semiring, a, b)
            /\ GB_CIJ_MULTADD(gus_in.semiring, gus_in.semiring.identity, a, b)
                  = Gus_rmult(gus_in.semiring, a, b)
            /\ GB_DOT_ADD(gus_in.semiring, gus_in.semiring.identity, b) = b
            /\ GB_ADD(gus_in.semiring, gus_in.semiring.identity, b) = b
      /\ \A j \in 0..(Gus_N - 1) : \A q \in 1..Len(gus_dot.vecs[j]) :
            j < gus_dot.j =>
               gus_dot.vecs[j][q][2]
                  = Gus_sum(Gus_ks(gus_dot.vecs[j][q][1], j), gus_dot.vecs[j][q][1], j)

\* the three kernels have computed every vector of A*B; some C(i,j) is made
\* of two products of which the first is the terminal value, so that the dot
\* product left its loop early, and some C(i,j) of two products neither of
\* which is
C28_Witness ==
    /\ gus_in # NULL
    /\ gus_nomask.j = Gus_N /\ gus_dot.j = Gus_N /\ gus_heap.j = Gus_N
    /\ \E i \in 0..(Gus_N - 1), j \in 0..(Gus_N - 1) :
          /\ Gus_products(i, j) = 2
          /\ Gus_rmult(gus_in.semiring, GB_value(gus_in.A, i, 0), GB_value(gus_in.B, 0, j))
                = gus_in.semiring.terminal
          /\ GB_value(Gus_T(gus_dot.vecs), i, j) = gus_in.semiring.terminal
    /\ \E i \in 0..(Gus_N - 1), j \in 0..(Gus_N - 1) :
          /\ Gus_products(i, j) = 2
          /\ GB_value(Gus_T(gus_heap.vecs), i, j) # gus_in.semiring.terminal
          /\ Gus_rmult(gus_in.semiring, GB_value(gus_in.A, i, 0), GB_value(gus_in.B, 0, j))
                # Gus_rmult(gus_in.semiring, GB_value(gus_in.B, 0, j), GB_value(gus_in.A, i, 0))

====
